---- MODULE Spec2Model ----
(***************************************************************************)
(* A state-machine model of the scaf REST scaffold: the Redis cache module *)
(* (core/cache/redis), the generic repository (core/database), the         *)
(* cache-aside service of ONBOARDING.md (ProductService), UserService, and *)
(* the authentication middleware (core/middleware/auth).                   *)
(*                                                                         *)
(* Every await of a handler is one step of the model: a cache command or a *)
(* store statement executes atomically, and other requests may run between *)
(* two steps of the same request.                                          *)
(*                                                                         *)
(* The repository and validateApiKeyInDatabase ship with their OracleDB    *)
(* statements commented out ("TODO: Replace with actual OracleDB           *)
(* implementation") and a stub result in their place.  The variable        *)
(* oracledb says which of the two bodies runs: "stub" is the body as       *)
(* shipped, "live" is the body with the commented statements in place.     *)
(***************************************************************************)
EXTENDS Integers, Sequences, FiniteSets, TLC

----------------------------------------------------------------------------
(* Bounds of the model *)

MaxReqs == 3
MaxAuthReqs == 2
MaxVer == 2
MaxFaults == 1
MaxFilters == 2
MaxPage == 2
MaxLimit == 2

(* Program constants *)

ProductCacheTTL == 300
DefaultKeyCacheTTL == 3600
DefaultLimit == 10
ShutdownTimeout == 10
MaxTimes == 6

----------------------------------------------------------------------------
(* Value spaces *)

Procs == {"p1", "p2"}
ProductIds == {1}
Skus == {"s1"}
Keys == {"k1", "k2"}
UserIds == {1, 2}
Emails == {"a", "b"}
HeaderIds == {"alice"}
Absent == "undefined"
HeaderValues == {Absent, ""} \cup HeaderIds
KeyValues == {Absent} \cup Keys
Null == "null"
FilterFields == {"price"}
Operators == {"eq", "ne", "gt", "gte", "lt", "lte", "like", "in"}
UnknownOperators == {"regex"}
Filters == [field : FilterFields, operator : Operators \cup UnknownOperators]

NoRow == [exists |-> FALSE]
NoEntry == [present |-> FALSE]

Max(a, b) == IF a >= b THEN a ELSE b

VARIABLES
  oracledb,        \* "stub" | "live": which body of the store access code runs
  dbUp,            \* the Oracle store accepts statements
  products,        \* PRODUCTS table: id -> row | NoRow
  users,           \* USERS table: id -> row | NoRow
  apiKeys,         \* api_keys table: key -> "active" | "expired" | "none"
  keyCacheTTL,     \* config.api.keyCacheTTL
  redisEnabled,    \* config.redis.enabled
  redisClient,     \* module variable redisClient: "null" | "client"
  redisAvailable,  \* module variable redisAvailable
  redisUp,         \* the Redis server answers commands
  kv,              \* Redis key space: key -> entry | NoEntry
  req,             \* the request running in each slot
  started,         \* requests accepted so far
  faults,          \* environment fault events so far
  lastDone,        \* id -> highest row version written by a completed write
  taint,           \* id -> how the cached entry of the product came to be stale, if it did
  marked,          \* key -> a lookup found the key invalid and called setCache with
                   \*        the marker, and the marker's time-to-live has not run out
  proc,            \* the process: phase of its life, exit code, what shutdown has
                   \* closed so far (in order), seconds since the signal
  errorLogged,     \* module variable errorLogged
  retry            \* the reconnection attempts of the Redis client since its last
                   \* connect: their number, what retryStrategy returned last (a
                   \* delay, or stop for null), the 'unavailable' warnings logged

vars == <<oracledb, dbUp, products, users, apiKeys, keyCacheTTL, redisEnabled,
          redisClient, redisAvailable, redisUp, kv, req, started,
          faults, lastDone, taint, marked, proc, errorLogged, retry>>

----------------------------------------------------------------------------
(* Values *)

NullVal == [isNull |-> TRUE]

\* mapRowToModel: the model object built from a row of the table: the id, the
\* mapped columns, and the timestamps as Date objects.  ver stands for the
\* columns of the row that carry no rule of their own (every UPDATE gives the
\* row a new ver).
mapRowToModel(id, row) ==
  [k \in {"isNull", "id", "dates"} \cup (DOMAIN row \ {"exists"}) |->
     CASE k = "isNull" -> FALSE
       [] k = "id" -> id
       [] k = "dates" -> "Date"
       [] OTHER -> row[k]]

\* mapModelToRow that copies every field of the model
mapModelToRow_all(model) == model

\* mapModelToRow: a column for each mapped field the model sets, nothing else
\* (if (model.email !== undefined) row.EMAIL = model.email ...).  A field that
\* is undefined is a field outside the DOMAIN of the model.
MappedFields == {"sku", "email", "firstName", "lastName", "isActive"}
mapModelToRow(model) ==
  [k \in DOMAIN model \cap MappedFields |-> model[k]]

\* JSON.stringify followed by JSON.parse: a Date comes back as a string, every
\* other field as it was.
JSONRoundTrip(v) ==
  IF "dates" \in DOMAIN v THEN [v EXCEPT !.dates = "string"] ELSE v

\* NaN, as parseInt returns it for an unparsable setting
NaN == -1

\* JavaScript truthiness of a number: 0 and NaN are falsy
Truthy(n) == n # 0 /\ n # NaN

cacheKeyProduct(id) == <<"product", id>>
cacheKeyApiKey(k) == <<"api_key", k>>
CacheKeys == {cacheKeyProduct(i) : i \in ProductIds} \cup {cacheKeyApiKey(k) : k \in Keys}

----------------------------------------------------------------------------
(* core/cache/redis *)

\* initializeRedis: disabled -> marks the cache unavailable and returns null;
\* enabled -> a new client whose connect() is under way.
initializeRedis ==
  IF ~redisEnabled
  THEN [ret |-> Null, client |-> redisClient, avail |-> FALSE]
  ELSE [ret |-> "client", client |-> "client", avail |-> redisAvailable]

getRedisClient ==
  IF redisClient = Null
  THEN initializeRedis
  ELSE [ret |-> redisClient, client |-> redisClient, avail |-> redisAvailable]

\* A command on the client returned by getRedisClient raises when the client is
\* null (TypeError) or the server does not answer (ioredis gives up after
\* maxRetriesPerRequest).
CommandRaises(c) == c.ret = Null \/ ~redisUp

\* What a cache call leaves behind: the key space, the module variables, the
\* value it returns, whether it threw, and whether the command ran on the server.
CacheResult(k, c, a, v, t, r) ==
  [kv |-> k, client |-> c, avail |-> a, val |-> v, threw |-> t, ran |-> r]

Skipped == CacheResult(kv, redisClient, redisAvailable, NullVal, FALSE, FALSE)

setCache(key, value, ttl) ==
  IF ~redisAvailable THEN Skipped
  ELSE LET c == getRedisClient IN
       IF CommandRaises(c)
       THEN CacheResult(kv, c.client, c.avail, NullVal, FALSE, FALSE)
       ELSE CacheResult(
              [kv EXCEPT ![key] = [present |-> TRUE, val |-> JSONRoundTrip(value),
                                   ttl |-> IF Truthy(ttl) THEN ttl ELSE 0]],
              c.client, c.avail, NullVal, FALSE, TRUE)

\* getCache without its try/catch: an error of the client reaches the caller
getCache_uncaught(key) ==
  IF ~redisAvailable THEN Skipped
  ELSE LET c == getRedisClient IN
       IF CommandRaises(c)
       THEN CacheResult(kv, c.client, c.avail, NullVal, TRUE, FALSE)
       ELSE CacheResult(kv, c.client, c.avail,
                        IF kv[key].present THEN kv[key].val ELSE NullVal,
                        FALSE, TRUE)

getCache(key) ==
  IF ~redisAvailable THEN Skipped
  ELSE LET c == getRedisClient IN
       IF CommandRaises(c)
       THEN CacheResult(kv, c.client, c.avail, NullVal, FALSE, FALSE)
       ELSE CacheResult(kv, c.client, c.avail,
                        IF kv[key].present THEN kv[key].val ELSE NullVal,
                        FALSE, TRUE)

\* deleteCache that reports success and leaves the entry in place
deleteCache_kept(key) ==
  IF ~redisAvailable THEN Skipped
  ELSE LET c == getRedisClient IN
       IF CommandRaises(c)
       THEN CacheResult(kv, c.client, c.avail, NullVal, FALSE, FALSE)
       ELSE CacheResult(kv, c.client, c.avail, NullVal, FALSE, TRUE)

deleteCache(key) ==
  IF ~redisAvailable THEN Skipped
  ELSE LET c == getRedisClient IN
       IF CommandRaises(c)
       THEN CacheResult(kv, c.client, c.avail, NullVal, FALSE, FALSE)
       ELSE CacheResult([kv EXCEPT ![key] = NoEntry], c.client, c.avail,
                        NullVal, FALSE, TRUE)

\* hasCache returns a boolean: val.isNull stands for false
hasCache(key) ==
  IF ~redisAvailable THEN Skipped
  ELSE LET c == getRedisClient IN
       IF CommandRaises(c)
       THEN CacheResult(kv, c.client, c.avail, NullVal, FALSE, FALSE)
       ELSE CacheResult(kv, c.client, c.avail,
                        IF kv[key].present THEN [isNull |-> FALSE] ELSE NullVal,
                        FALSE, TRUE)

----------------------------------------------------------------------------
(* core/database: connection and BaseRepository *)

\* getConnection: the stub hands out {}; the live pool raises when the store
\* is unreachable.
getConnectionRaises == oracledb = "live" /\ ~dbUp

\* What a repository call leaves behind: the table, the value it returns, and
\* the error it threw ("none", "store", "notImplemented").
RepoResult(t, v, e) == [table |-> t, val |-> v, err |-> e]

\* BaseRepository.findById
findById(table, id) ==
  IF getConnectionRaises THEN RepoResult(table, NullVal, "store")
  ELSE IF oracledb = "stub" THEN RepoResult(table, NullVal, "none")
  ELSE IF table[id].exists
       THEN RepoResult(table, mapRowToModel(id, table[id]), "none")
       ELSE RepoResult(table, NullVal, "none")

\* BaseRepository.update up to its UPDATE statement; val.isNull stands for
\* rowsAffected = 0.  The method then returns findById(id), a second statement.
update(table, id, model) ==
  LET row == mapModelToRow(model) IN
  IF getConnectionRaises THEN RepoResult(table, NullVal, "store")
  ELSE IF oracledb = "stub" THEN RepoResult(table, NullVal, "notImplemented")
  ELSE IF table[id].exists
       THEN RepoResult(
              [table EXCEPT ![id] =
                 [k \in DOMAIN @ |->
                    IF k = "ver" THEN @[k] + 1
                    ELSE IF k \in DOMAIN row THEN row[k] ELSE @[k]]],
              [isNull |-> FALSE], "none")
       ELSE RepoResult(table, NullVal, "none")

\* BaseRepository.delete
delete(table, id) ==
  IF getConnectionRaises THEN RepoResult(table, NullVal, "store")
  ELSE IF oracledb = "stub" THEN RepoResult(table, NullVal, "notImplemented")
  ELSE IF table[id].exists
       THEN RepoResult([table EXCEPT ![id] = NoRow], [isNull |-> FALSE], "none")
       ELSE RepoResult(table, NullVal, "none")

FreeIds(table) == {i \in DOMAIN table : ~table[i].exists}
NextId(table) == CHOOSE i \in FreeIds(table) : \A j \in FreeIds(table) : i <= j

\* BaseRepository.create up to its INSERT statement; val carries the id the
\* sequence assigned.  The method then returns findById(newId).  A column the
\* row does not set takes its default.
create(table, model) ==
  IF getConnectionRaises THEN RepoResult(table, NullVal, "store")
  ELSE IF oracledb = "stub" THEN RepoResult(table, NullVal, "notImplemented")
  ELSE RepoResult(
         [table EXCEPT ![NextId(table)] =
            mapModelToRow(model) @@ [exists |-> TRUE, ver |-> 0, isActive |-> TRUE]],
         [isNull |-> FALSE, id |-> NextId(table)], "none")

\* UserRepository.findByEmail: the stub returns null without a connection
findByEmail(table, email) ==
  IF oracledb = "stub" THEN RepoResult(table, NullVal, "none")
  ELSE IF getConnectionRaises THEN RepoResult(table, NullVal, "store")
  ELSE LET ids == {i \in DOMAIN table : table[i].exists /\ table[i].email = email} IN
       IF ids = {} THEN RepoResult(table, NullVal, "none")
       ELSE LET i == CHOOSE i \in ids : \A j \in ids : i <= j
            IN RepoResult(table, mapRowToModel(i, table[i]), "none")

\* Math.ceil(a / b) for a >= 0 and b > 0, rounded down instead of up
Ceil_floor(a, b) == a \div b

\* Math.ceil(a / b) for a >= 0 and b > 0
Ceil(a, b) == (a + b - 1) \div b

\* pagination?.limit || 10
LimitOrDefault(limit) == IF Truthy(limit) THEN limit ELSE DefaultLimit

\* BaseRepository.findAll without filters, to its COUNT statement: the stub
\* sets total = 0
findAllCount(table) ==
  IF getConnectionRaises THEN [total |-> 0, err |-> "store"]
  ELSE IF oracledb = "stub" THEN [total |-> 0, err |-> "none"]
  ELSE [total |-> Cardinality({i \in DOMAIN table : table[i].exists}), err |-> "none"]

\* The ids of the table in ascending order
RECURSIVE IdsFrom(_, _)
IdsFrom(table, i) ==
  IF i \notin DOMAIN table THEN <<>>
  ELSE (IF table[i].exists THEN <<i>> ELSE <<>>) \o IdsFrom(table, i + 1)

\* BaseRepository.findAll from its SELECT statement (OFFSET offset ROWS FETCH
\* NEXT limit ROWS ONLY) to its return: the page and totalPages.  The stub
\* returns no data.  A negative offset or a limit of 0 is an error of the
\* statement.
findAllPage(table, total, limit, offset) ==
  LET ids == IdsFrom(table, 1)
      pages == Ceil(total, LimitOrDefault(limit))
  IN
  IF oracledb = "stub" THEN [data |-> <<>>, totalPages |-> pages, err |-> "none"]
  ELSE IF getConnectionRaises \/ offset < 0 \/ limit < 1
  THEN [data |-> <<>>, totalPages |-> 0, err |-> "store"]
  ELSE [data |-> SubSeq(ids, offset + 1, IF offset + limit <= Len(ids)
                                          THEN offset + limit ELSE Len(ids)),
        totalPages |-> pages, err |-> "none"]

\* BaseRepository.findAll with the single filter (sku eq s): the ids of the
\* page, in id order.  The stub returns no data.
findAllBySku(table, s) ==
  IF getConnectionRaises THEN [ids |-> {}, err |-> "store"]
  ELSE IF oracledb = "stub" THEN [ids |-> {}, err |-> "none"]
  ELSE [ids |-> {i \in DOMAIN table : table[i].exists /\ table[i].sku = s},
        err |-> "none"]

----------------------------------------------------------------------------
(* BaseRepository.buildWhereClause.  A string is the sequence of its tokens; *)
(* the empty string is the empty sequence.                                  *)

\* filters?: Filter[]: undefined, or a list of at most MaxFilters filters
FilterLists == UNION {[1..n -> Filters] : n \in 0..MaxFilters}
FilterArgs == {[absent |-> TRUE]} \cup {[absent |-> FALSE, list |-> l] : l \in FilterLists}

\* The switch on filter.operator: the condition of one filter, '' by default
Condition(filter) ==
  CASE filter.operator = "eq" -> <<filter.field, "=", ":", filter.field>>
    [] filter.operator = "ne" -> <<filter.field, "!=", ":", filter.field>>
    [] filter.operator = "gt" -> <<filter.field, ">", ":", filter.field>>
    [] filter.operator = "gte" -> <<filter.field, ">=", ":", filter.field>>
    [] filter.operator = "lt" -> <<filter.field, "<", ":", filter.field>>
    [] filter.operator = "lte" -> <<filter.field, "<=", ":", filter.field>>
    [] filter.operator = "like" -> <<filter.field, "LIKE", ":", filter.field>>
    [] filter.operator = "in" -> <<filter.field, "IN", "(", ":", filter.field, ")">>
    [] OTHER -> <<>>

\* conditions.filter(c => c): the non-empty strings, in order
RECURSIVE NonEmpty(_)
NonEmpty(conds) ==
  IF conds = <<>> THEN <<>>
  ELSE IF Head(conds) = <<>> THEN NonEmpty(Tail(conds))
  ELSE <<Head(conds)>> \o NonEmpty(Tail(conds))

\* Array.prototype.join(sep)
RECURSIVE Join(_, _)
Join(strs, sep) ==
  IF strs = <<>> THEN <<>>
  ELSE IF Len(strs) = 1 THEN Head(strs)
  ELSE Head(strs) \o sep \o Join(Tail(strs), sep)

\* buildWhereClause with the conditions joined by OR
buildWhereClause_or(filters) ==
  IF filters.absent \/ filters.list = <<>> THEN <<>>
  ELSE <<"WHERE">> \o
       Join(NonEmpty([i \in 1..Len(filters.list) |-> Condition(filters.list[i])]),
            <<"OR">>)

\* buildWhereClause that consults the connection state
buildWhereClause_stateful(filters) ==
  IF filters.absent \/ filters.list = <<>> \/ ~dbUp THEN <<>>
  ELSE <<"WHERE">> \o
       Join(NonEmpty([i \in 1..Len(filters.list) |-> Condition(filters.list[i])]),
            <<"AND">>)

buildWhereClause(filters) ==
  IF filters.absent \/ filters.list = <<>> THEN <<>>
  ELSE <<"WHERE">> \o
       Join(NonEmpty([i \in 1..Len(filters.list) |-> Condition(filters.list[i])]),
            <<"AND">>)

----------------------------------------------------------------------------
(* Requests *)

\* A slot with no request in it.  The fields of a request:
\*   kind, pc         the handler and its position (the await it is at)
\*   id, sku, email   the arguments of a service call
\*   hdrId, hdrKey    the identityid header and the API key header
\*   val              the entity the handler holds (cached, fetched or returned)
\*   isValid          what validateApiKeyInDatabase returned
\*   status, cause    how a service call ended, and what raised its error
\*   res, nNext       the response status a middleware sent (0: none), calls of next()
\*   identityId, apiKeyId, isApiKeyAuth   the fields set on the request object
\*   nGet .. nDb      cache calls and store statements issued so far
\*   ttl              the ttl argument of the last setCache (NoTTL: none)
\*   cfail            the cache calls ("get", "set", "del", "has") whose command
\*                    did not run (cache unavailable, or the client raised)
\*   seen             what the handler's getCache / hasCache returned
\*   filters, clause  the argument of buildWhereClause and the string it returned
\*   page, limit      the arguments of getAllUsers
\*   offset           the offset getAllUsers hands to findAll
\*   total, totalPages, data   the result of findAll (data: the ids of the page)
\*   moved            the table changed its row count between the COUNT and the
\*                    SELECT of findAll
\*   calls            the repository methods the service called, in order, each
\*                    with its outcome
\*   msg              the message of the error the service threw
\*   model, row       the argument of mapModelToRow and the row it returned
\*   raw              the id path parameter as the controller received it
\*   resMsg           the message of the response errorHandler sent (its status
\*                    is res)
\*   repo             the last repository call: method, whether a record
\*                    matched, and its outcome
\*   floor, hit, taint, wver   history used to state the claims
NoTTL == -2
NoRepo == [op |-> "none", matched |-> FALSE, out |-> "none"]
Idle ==
  [kind |-> "idle", pc |-> "idle", id |-> 0, sku |-> Absent, email |-> Absent,
   hdrId |-> Absent, hdrKey |-> Absent, val |-> NullVal, isValid |-> FALSE,
   status |-> "none", cause |-> "none", res |-> 0, nNext |-> 0,
   identityId |-> Absent, apiKeyId |-> Absent, isApiKeyAuth |-> Absent,
   nGet |-> 0, nSet |-> 0, nDel |-> 0, nHas |-> 0, nDb |-> 0, ttl |-> NoTTL,
   cfail |-> {}, seen |-> "none",
   filters |-> [absent |-> TRUE], clause |-> <<>>,
   page |-> 0, limit |-> 0, offset |-> 0, total |-> 0, totalPages |-> 0, data |-> <<>>,
   moved |-> FALSE, calls |-> <<>>, msg |-> [text |-> "none", id |-> 0],
   raw |-> [num |-> TRUE, int |-> TRUE, n |-> 0], resMsg |-> "none",
   model |-> <<>>, row |-> <<>>,
   dbHealth |-> "none", redisHealth |-> "none",
   report |-> [status |-> "none", database |-> "none", redis |-> "none"],
   repo |-> NoRepo, floor |-> 0, hit |-> FALSE, taint |-> "none", wver |-> 0]

ReadKinds == {"getProductById"}
WriteKinds == {"createProduct", "updateProduct", "deleteProduct"}
AuthKinds == {"validateSSOAuth", "validateApiKeyAuth", "validateAnyAuth"}

ApplyCache(r) ==
  /\ kv' = r.kv
  /\ redisClient' = r.client
  /\ redisAvailable' = r.avail
  /\ UNCHANGED <<errorLogged, retry>>

\* cfail after the cache call op
Failed(S, c, op) == IF c.ran THEN S ELSE S \cup {op}

CacheUnchanged == UNCHANGED <<kv, redisClient, redisAvailable, errorLogged, retry>>
ConfigUnchanged == UNCHANGED <<oracledb, apiKeys, keyCacheTTL, redisEnabled, proc>>
RestUnchanged == ConfigUnchanged /\ UNCHANGED marked

\* A service call ends: it returns, or throws the named error
Finish(r, status, cause) == [r EXCEPT !.pc = "done", !.status = status, !.cause = cause]

\* The outcome of a repository call as the caller sees it
Outcome(f) ==
  IF f.err # "none" THEN f.err ELSE IF f.val.isNull THEN "null" ELSE "entity"

----------------------------------------------------------------------------
(* ProductService (ONBOARDING.md, Step 5) *)

\* A slot is free when it holds no request or one that has been answered.
\* Requests take the first free slot.
Free(p) == req[p].pc \in {"idle", "done"}
InFlight(p) == ~Free(p)
FirstFree(p) == Free(p) /\ (p = "p2" => ~Free("p1"))

\* The server takes requests until shutdown calls server.close
Accept(p) == FirstFree(p) /\ started < MaxReqs /\ proc.phase = "serving"

\* Writes of the row that are under way
WritesInFlight(id) ==
  Cardinality({q \in Procs : InFlight(q) /\ req[q].id = id
                            /\ req[q].kind \in {"updateProduct", "deleteProduct"}
                            /\ req[q].pc \in {"get", "find", "set", "upd"}})

StartProduct(p, kind, id, sku) ==
  /\ Accept(p)
  /\ kind \in {"updateProduct", "deleteProduct"} =>
       (IF products[id].exists THEN products[id].ver ELSE 0) + WritesInFlight(id) < MaxVer
  /\ req' = [req EXCEPT ![p] =
       [Idle EXCEPT !.kind = kind,
                    !.pc = IF kind = "createProduct" THEN "uniq" ELSE "get",
                    !.id = id, !.sku = sku,
                    !.floor = IF kind = "createProduct" THEN 0 ELSE lastDone[id]]]
  /\ started' = started + 1
  /\ UNCHANGED <<dbUp, products, users, redisUp, faults, lastDone, taint>>
  /\ CacheUnchanged /\ RestUnchanged

\* getProductById_getCache that queries the repository even on a hit
getProductById_getCacheThenFind(p) ==
  LET r == req[p]
      c == getCache(cacheKeyProduct(r.id))
      r1 == [r EXCEPT !.nGet = @ + 1, !.cfail = Failed(@, c, "get"),
                      !.seen = IF c.val.isNull THEN "miss" ELSE "product"]
  IN
  /\ r.kind \in {"getProductById", "updateProduct", "deleteProduct"}
  /\ r.pc = "get"
  /\ ApplyCache(c)
  /\ req' = [req EXCEPT ![p] =
       IF c.threw THEN Finish(r1, "Error", "cache")
       ELSE IF ~c.val.isNull
       THEN [r1 EXCEPT !.val = c.val, !.hit = TRUE, !.taint = taint[r.id], !.pc = "find"]
       ELSE [r1 EXCEPT !.pc = "find"]]
  /\ UNCHANGED <<dbUp, products, users, redisUp, started, faults, lastDone, taint>>
  /\ RestUnchanged

\* getProductById, to its first await: const cached = await getCache(cacheKey)
\* if (cached) return cached.  updateProduct and deleteProduct begin with the
\* same call and go on to their repository write when it returns.
getProductById_getCache(p) ==
  LET r == req[p]
      c == getCache(cacheKeyProduct(r.id))
      r1 == [r EXCEPT !.nGet = @ + 1, !.cfail = Failed(@, c, "get"),
                      !.seen = IF c.val.isNull THEN "miss" ELSE "product"]
  IN
  /\ r.kind \in {"getProductById", "updateProduct", "deleteProduct"}
  /\ r.pc = "get"
  /\ ApplyCache(c)
  /\ req' = [req EXCEPT ![p] =
       IF c.threw THEN Finish(r1, "Error", "cache")
       ELSE IF ~c.val.isNull
       THEN LET r2 == [r1 EXCEPT !.val = c.val, !.hit = TRUE, !.taint = taint[r.id]]
            IN IF r.kind = "getProductById" THEN Finish(r2, "returned", "none")
               ELSE [r2 EXCEPT !.pc = "upd"]
       ELSE [r1 EXCEPT !.pc = "find"]]
  /\ UNCHANGED <<dbUp, products, users, redisUp, started, faults, lastDone, taint>>
  /\ RestUnchanged

\* const product = await this.repository.findById(id)
\* if (!product) throw new NotFoundError(...)
getProductById_findById(p) ==
  LET r == req[p]
      f == findById(products, r.id)
      r1 == [r EXCEPT !.nDb = @ + 1,
                      !.repo = [op |-> "findById", matched |-> products[r.id].exists,
                                out |-> Outcome(f)]]
  IN
  /\ r.kind \in {"getProductById", "updateProduct", "deleteProduct"}
  /\ r.pc = "find"
  /\ req' = [req EXCEPT ![p] =
       IF f.err # "none" THEN Finish(r1, "Error", f.err)
       ELSE IF f.val.isNull THEN Finish(r1, "NotFoundError", "none")
       ELSE [r1 EXCEPT !.val = f.val, !.pc = "set"]]
  /\ UNCHANGED <<dbUp, products, users, redisUp, started, faults, lastDone, taint>>
  /\ CacheUnchanged /\ RestUnchanged

\* await setCache(cacheKey, product, 300); return product
getProductById_setCache(p) ==
  LET r == req[p]
      c == setCache(cacheKeyProduct(r.id), r.val, ProductCacheTTL)
      r1 == [r EXCEPT !.nSet = @ + 1, !.ttl = ProductCacheTTL, !.cfail = Failed(@, c, "set")]
  IN
  /\ r.kind \in {"getProductById", "updateProduct", "deleteProduct"}
  /\ r.pc = "set"
  /\ ApplyCache(c)
  /\ taint' = IF c.ran
              THEN [taint EXCEPT ![r.id] =
                      IF products[r.id].exists /\ r.val.ver < products[r.id].ver
                      THEN "racy" ELSE "none"]
              ELSE taint
  /\ req' = [req EXCEPT ![p] =
       IF c.threw THEN Finish(r1, "Error", "cache")
       ELSE IF r.kind = "getProductById" THEN Finish(r1, "returned", "none")
       ELSE [r1 EXCEPT !.pc = "upd"]]
  /\ UNCHANGED <<dbUp, products, users, redisUp, started, faults, lastDone>>
  /\ RestUnchanged

\* The dto of updateProduct changes a column other than isActive; deleteProduct
\* passes { isActive: false }.  UpdateProductDTO has no sku, so the uniqueness
\* check of updateProduct (if (dto.sku)) is not taken.
WriteDto(kind) ==
  IF kind = "deleteProduct" THEN [isActive |-> FALSE] ELSE [name |-> "renamed"]

\* The repository write of updateProduct / deleteProduct: BaseRepository.update
\* to its UPDATE statement.
\*   updateProduct: const updated = await this.repository.update(id, dto)
\*                  if (!updated) throw new NotFoundError(...)
\*   deleteProduct: await this.repository.update(id, { isActive: false })
productWrite_update(p) ==
  LET r == req[p]
      u == update(products, r.id, WriteDto(r.kind))
      r1 == [r EXCEPT !.nDb = @ + 1,
                      !.repo = [op |-> "update", matched |-> products[r.id].exists,
                                out |-> Outcome(u)]]
  IN
  /\ r.kind \in {"updateProduct", "deleteProduct"}
  /\ r.pc = "upd"
  /\ products' = u.table
  /\ req' = [req EXCEPT ![p] =
       IF u.err # "none" THEN Finish(r1, "Error", u.err)
       ELSE IF u.val.isNull
       THEN IF r.kind = "updateProduct" THEN Finish(r1, "NotFoundError", "none")
            ELSE [r1 EXCEPT !.val = NullVal, !.pc = "del"]
       ELSE [r1 EXCEPT !.wver = u.table[r.id].ver, !.pc = "upd2"]]
  /\ UNCHANGED <<dbUp, users, redisUp, started, faults, lastDone, taint>>
  /\ CacheUnchanged /\ RestUnchanged

\* productWrite_reselect as a write-through: the row read back is put into
\* the cache before the invalidation
productWrite_reselectWriteThrough(p) ==
  LET r == req[p]
      f == findById(products, r.id)
      c == setCache(cacheKeyProduct(r.id), f.val, ProductCacheTTL)
      r1 == [r EXCEPT !.nDb = @ + 1]
  IN
  /\ r.kind \in {"updateProduct", "deleteProduct"}
  /\ r.pc = "upd2"
  /\ IF f.err = "none" /\ ~f.val.isNull THEN ApplyCache(c) ELSE CacheUnchanged
  /\ req' = [req EXCEPT ![p] =
       IF f.err # "none" THEN Finish(r1, "Error", f.err)
       ELSE IF f.val.isNull /\ r.kind = "updateProduct"
       THEN Finish(r1, "NotFoundError", "none")
       ELSE [r1 EXCEPT !.val = f.val, !.pc = "del",
                       !.nSet = IF f.val.isNull THEN @ ELSE @ + 1]]
  /\ UNCHANGED <<dbUp, products, users, redisUp, started, faults, lastDone, taint>>
  /\ RestUnchanged

\* BaseRepository.update after its UPDATE statement: return this.findById(id)
productWrite_reselect(p) ==
  LET r == req[p]
      f == findById(products, r.id)
      r1 == [r EXCEPT !.nDb = @ + 1]
  IN
  /\ r.kind \in {"updateProduct", "deleteProduct"}
  /\ r.pc = "upd2"
  /\ req' = [req EXCEPT ![p] =
       IF f.err # "none" THEN Finish(r1, "Error", f.err)
       ELSE IF f.val.isNull /\ r.kind = "updateProduct"
       THEN Finish(r1, "NotFoundError", "none")
       ELSE [r1 EXCEPT !.val = f.val, !.pc = "del"]]
  /\ UNCHANGED <<dbUp, products, users, redisUp, started, faults, lastDone, taint>>
  /\ CacheUnchanged /\ RestUnchanged

\* productWrite_deleteCache without the invalidation: the write returns and
\* leaves the entry in place
productWrite_noInvalidate(p) ==
  LET r == req[p]
  IN
  /\ r.kind \in {"updateProduct", "deleteProduct"}
  /\ r.pc = "del"
  /\ req' = [req EXCEPT ![p] = Finish(r, "returned", "none")]
  /\ lastDone' = [lastDone EXCEPT ![r.id] = Max(@, r.wver)]
  /\ UNCHANGED <<dbUp, products, users, redisUp, started, faults, taint>>
  /\ CacheUnchanged /\ RestUnchanged

\* await deleteCache(`product:${id}`); return
productWrite_deleteCache(p) ==
  LET r == req[p]
      k == cacheKeyProduct(r.id)
      c == deleteCache(k)
      r1 == [r EXCEPT !.nDel = @ + 1, !.cfail = Failed(@, c, "del")]
  IN
  /\ r.kind \in {"updateProduct", "deleteProduct"}
  /\ r.pc = "del"
  /\ ApplyCache(c)
  /\ taint' = [taint EXCEPT ![r.id] =
                 IF c.ran THEN "none"
                 ELSE IF kv[k].present /\ @ = "none" THEN "kept" ELSE @]
  /\ req' = [req EXCEPT ![p] =
       IF c.threw THEN Finish(r1, "Error", "cache")
       ELSE Finish(r1, "returned", "none")]
  /\ lastDone' = IF c.threw THEN lastDone
                 ELSE [lastDone EXCEPT ![r.id] = Max(@, r.wver)]
  /\ UNCHANGED <<dbUp, products, users, redisUp, started, faults>>
  /\ RestUnchanged

\* createProduct: await this.validateUniqueSKU(dto.sku)
\*   const existing = await this.repository.findAll(filters)
\*   if (existing.data.length > 0 && existing.data[0].id !== excludeId) throw ...
createProduct_validateUniqueSKU(p) ==
  LET r == req[p]
      a == findAllBySku(products, r.sku)
      r1 == [r EXCEPT !.nDb = @ + 1]
  IN
  /\ r.kind = "createProduct"
  /\ r.pc = "uniq"
  /\ req' = [req EXCEPT ![p] =
       IF a.err # "none" THEN Finish(r1, "Error", a.err)
       ELSE IF a.ids # {} THEN Finish(r1, "ValidationError", "none")
       ELSE [r1 EXCEPT !.pc = "ins"]]
  /\ UNCHANGED <<dbUp, products, users, redisUp, started, faults, lastDone, taint>>
  /\ CacheUnchanged /\ RestUnchanged

\* const product = await this.repository.create(dto): BaseRepository.create to
\* its INSERT statement
createProduct_create(p) ==
  LET r == req[p]
      i == create(products, [sku |-> r.sku])
      r1 == [r EXCEPT !.nDb = @ + 1,
                      !.repo = [op |-> "create", matched |-> FALSE, out |-> Outcome(i)]]
  IN
  /\ r.kind = "createProduct"
  /\ r.pc = "ins"
  /\ FreeIds(products) # {}
  /\ products' = i.table
  /\ req' = [req EXCEPT ![p] =
       IF i.err # "none" THEN Finish(r1, "Error", i.err)
       ELSE [r1 EXCEPT !.id = i.val.id, !.pc = "ins2"]]
  /\ UNCHANGED <<dbUp, users, redisUp, started, faults, lastDone, taint>>
  /\ CacheUnchanged /\ RestUnchanged

\* BaseRepository.create after its INSERT statement: return this.findById(newId)
createProduct_reselect(p) ==
  LET r == req[p]
      f == findById(products, r.id)
      r1 == [r EXCEPT !.nDb = @ + 1]
  IN
  /\ r.kind = "createProduct"
  /\ r.pc = "ins2"
  /\ req' = [req EXCEPT ![p] =
       IF f.err # "none" THEN Finish(r1, "Error", f.err)
       ELSE Finish([r1 EXCEPT !.val = f.val], "returned", "none")]
  /\ UNCHANGED <<dbUp, products, users, redisUp, started, faults, lastDone, taint>>
  /\ CacheUnchanged /\ RestUnchanged

----------------------------------------------------------------------------
(* UserService (features/users/user.service.ts).  Each method catches, logs  *)
(* and rethrows: the caller sees the error the method threw.                *)

UserKinds == {"getUserById", "createUser", "updateUser", "deleteUser"}

StartUser(p, kind, id, email) ==
  /\ Accept(p)
  /\ kind = "updateUser" =>
       (IF users[id].exists THEN users[id].ver ELSE 0)
         + Cardinality({q \in Procs : InFlight(q) /\ req[q].kind = "updateUser"
                                       /\ req[q].id = id}) < MaxVer
  /\ req' = [req EXCEPT ![p] =
       [Idle EXCEPT !.kind = kind,
                    !.pc = CASE kind = "createUser" -> "email"
                             [] kind = "deleteUser" -> "delete"
                             [] OTHER -> "find",
                    !.id = id, !.email = email]]
  /\ started' = started + 1
  /\ UNCHANGED <<dbUp, products, users, redisUp, faults, lastDone, taint>>
  /\ CacheUnchanged /\ RestUnchanged

\* mapToResponseDto copies id, email, firstName, lastName, isActive, createdAt
\* and updatedAt (ver stands for the name columns, dates for the timestamps)
\* mapToResponseDto that leaves the email out
mapToResponseDto_noEmail(user) ==
  [k \in {"isNull", "id", "ver", "isActive", "dates"} \cap DOMAIN user |-> user[k]]

DtoFields == {"id", "email", "ver", "isActive", "dates"}
mapToResponseDto(user) ==
  [k \in (DtoFields \cup {"isNull"}) \cap DOMAIN user |-> user[k]]

\* `User with ID ${id} not found` and 'Email already exists'
NotFoundMsg(id) == [text |-> "User with ID <id> not found", id |-> id]
EmailExistsMsg == [text |-> "Email already exists", id |-> 0]

\* throw new NotFoundError(msg) / throw new ValidationError(msg)
Throw(r, status, msg) == [Finish(r, status, "none") EXCEPT !.msg = msg]

\* The service calls a repository method, which comes back with out
Called(r, op, matched, out) ==
  [r EXCEPT !.nDb = @ + 1,
            !.repo = [op |-> op, matched |-> matched, out |-> out],
            !.calls = Append(@, [op |-> op, out |-> out])]

\* The second statement of a repository method decides what the method returns
Returned(r, out) ==
  [r EXCEPT !.nDb = @ + 1, !.calls[Len(r.calls)].out = out]

\* user_findById that goes on to the update without looking the new email up
user_findById_noEmailCheck(p) ==
  LET r == req[p]
      f == findById(users, r.id)
      r1 == Called(r, "findById", users[r.id].exists, Outcome(f))
  IN
  /\ r.kind \in {"getUserById", "updateUser"} /\ r.pc = "find"
  /\ req' = [req EXCEPT ![p] =
       IF f.err # "none" THEN Finish(r1, "Error", f.err)
       ELSE IF f.val.isNull THEN Throw(r1, "NotFoundError", NotFoundMsg(r.id))
       ELSE IF r.kind = "getUserById"
       THEN Finish([r1 EXCEPT !.val = mapToResponseDto(f.val)], "returned", "none")
       ELSE [r1 EXCEPT !.pc = "upd"]]
  /\ UNCHANGED <<dbUp, products, users, redisUp, started, faults, lastDone, taint>>
  /\ CacheUnchanged /\ RestUnchanged

\* getUserById: const user = await this.userRepository.findById(id)
\*              if (!user) throw new NotFoundError(...)
\* updateUser begins with the same lookup and goes on when a user came back:
\*              if (updateUserDto.email && updateUserDto.email !== existingUser.email)
user_findById(p) ==
  LET r == req[p]
      f == findById(users, r.id)
      r1 == Called(r, "findById", users[r.id].exists, Outcome(f))
  IN
  /\ r.kind \in {"getUserById", "updateUser"} /\ r.pc = "find"
  /\ req' = [req EXCEPT ![p] =
       IF f.err # "none" THEN Finish(r1, "Error", f.err)
       ELSE IF f.val.isNull THEN Throw(r1, "NotFoundError", NotFoundMsg(r.id))
       ELSE IF r.kind = "getUserById"
       THEN Finish([r1 EXCEPT !.val = mapToResponseDto(f.val)], "returned", "none")
       ELSE IF r.email # Absent /\ r.email # f.val.email
       THEN [r1 EXCEPT !.pc = "email"]
       ELSE [r1 EXCEPT !.pc = "upd"]]
  /\ UNCHANGED <<dbUp, products, users, redisUp, started, faults, lastDone, taint>>
  /\ CacheUnchanged /\ RestUnchanged

\* user_findByEmail that goes on to the write whatever the lookup returned
user_findByEmail_ignored(p) ==
  LET r == req[p]
      f == findByEmail(users, r.email)
      r1 == Called(r, "findByEmail", ~f.val.isNull, Outcome(f))
  IN
  /\ r.kind \in {"createUser", "updateUser"} /\ r.pc = "email"
  /\ req' = [req EXCEPT ![p] =
       IF f.err # "none" THEN Finish(r1, "Error", f.err)
       ELSE [r1 EXCEPT !.pc = IF r.kind = "createUser" THEN "ins" ELSE "upd"]]
  /\ UNCHANGED <<dbUp, products, users, redisUp, started, faults, lastDone, taint>>
  /\ CacheUnchanged /\ RestUnchanged

\* createUser / updateUser: await this.userRepository.findByEmail(email)
\*                          if found throw new ValidationError('Email already exists')
user_findByEmail(p) ==
  LET r == req[p]
      f == findByEmail(users, r.email)
      r1 == Called(r, "findByEmail", ~f.val.isNull, Outcome(f))
  IN
  /\ r.kind \in {"createUser", "updateUser"} /\ r.pc = "email"
  /\ req' = [req EXCEPT ![p] =
       IF f.err # "none" THEN Finish(r1, "Error", f.err)
       ELSE IF ~f.val.isNull THEN Throw(r1, "ValidationError", EmailExistsMsg)
       ELSE [r1 EXCEPT !.pc = IF r.kind = "createUser" THEN "ins" ELSE "upd"]]
  /\ UNCHANGED <<dbUp, products, users, redisUp, started, faults, lastDone, taint>>
  /\ CacheUnchanged /\ RestUnchanged

\* The model createUser / updateUser hands to the repository
UserModel(r) ==
  IF r.kind = "createUser"
  THEN [email |-> r.email, isActive |-> TRUE, createdAt |-> "Date", updatedAt |-> "Date"]
  ELSE IF r.email # Absent THEN [email |-> r.email, updatedAt |-> "Date"]
  ELSE [firstName |-> "renamed", updatedAt |-> "Date"]

\* createUser: await this.userRepository.create({...}), to the INSERT statement
createUser_create(p) ==
  LET r == req[p]
      i == create(users, UserModel(r))
      r1 == Called(r, "create", FALSE, Outcome(i))
  IN
  /\ r.kind = "createUser" /\ r.pc = "ins"
  /\ FreeIds(users) # {}
  /\ users' = i.table
  /\ req' = [req EXCEPT ![p] =
       IF i.err # "none" THEN Finish(r1, "Error", i.err)
       ELSE [r1 EXCEPT !.id = i.val.id, !.pc = "sel"]]
  /\ UNCHANGED <<dbUp, products, redisUp, started, faults, lastDone, taint>>
  /\ CacheUnchanged /\ RestUnchanged

\* updateUser: await this.userRepository.update(id, {...}), to the UPDATE statement
\*             if (!updatedUser) throw new NotFoundError(...)
updateUser_update(p) ==
  LET r == req[p]
      u == update(users, r.id, UserModel(r))
      r1 == Called(r, "update", users[r.id].exists, Outcome(u))
  IN
  /\ r.kind = "updateUser" /\ r.pc = "upd"
  /\ users' = u.table
  /\ req' = [req EXCEPT ![p] =
       IF u.err # "none" THEN Finish(r1, "Error", u.err)
       ELSE IF u.val.isNull THEN Throw(r1, "NotFoundError", NotFoundMsg(r.id))
       ELSE [r1 EXCEPT !.pc = "sel"]]
  /\ UNCHANGED <<dbUp, products, redisUp, started, faults, lastDone, taint>>
  /\ CacheUnchanged /\ RestUnchanged

\* BaseRepository.create / update after the statement: return this.findById(id).
\* createUser reads newUser.id, which raises a TypeError on null; updateUser
\* throws NotFoundError on null.
user_reselect(p) ==
  LET r == req[p]
      f == findById(users, r.id)
      r1 == Returned(r, Outcome(f))
  IN
  /\ r.kind \in {"createUser", "updateUser"} /\ r.pc = "sel"
  /\ req' = [req EXCEPT ![p] =
       IF f.err # "none" THEN Finish(r1, "Error", f.err)
       ELSE IF f.val.isNull
       THEN IF r.kind = "createUser" THEN Finish(r1, "Error", "TypeError")
            ELSE Throw(r1, "NotFoundError", NotFoundMsg(r.id))
       ELSE Finish([r1 EXCEPT !.val = mapToResponseDto(f.val)], "returned", "none")]
  /\ UNCHANGED <<dbUp, products, users, redisUp, started, faults, lastDone, taint>>
  /\ CacheUnchanged /\ RestUnchanged

\* deleteUser_delete that resolves whatever delete returned
deleteUser_delete_silent(p) ==
  LET r == req[p]
      d == delete(users, r.id)
      r1 == Called(r, "delete", users[r.id].exists, Outcome(d))
  IN
  /\ r.kind = "deleteUser" /\ r.pc = "delete"
  /\ users' = d.table
  /\ req' = [req EXCEPT ![p] =
       IF d.err # "none" THEN Finish(r1, "Error", d.err)
       ELSE Finish(r1, "returned", "none")]
  /\ UNCHANGED <<dbUp, products, redisUp, started, faults, lastDone, taint>>
  /\ CacheUnchanged /\ RestUnchanged

\* deleteUser: const deleted = await this.userRepository.delete(id)
\*             if (!deleted) throw new NotFoundError(...)
deleteUser_delete(p) ==
  LET r == req[p]
      d == delete(users, r.id)
      r1 == Called(r, "delete", users[r.id].exists, Outcome(d))
  IN
  /\ r.kind = "deleteUser" /\ r.pc = "delete"
  /\ users' = d.table
  /\ req' = [req EXCEPT ![p] =
       IF d.err # "none" THEN Finish(r1, "Error", d.err)
       ELSE IF d.val.isNull THEN Throw(r1, "NotFoundError", NotFoundMsg(r.id))
       ELSE Finish(r1, "returned", "none")]
  /\ UNCHANGED <<dbUp, products, redisUp, started, faults, lastDone, taint>>
  /\ CacheUnchanged /\ RestUnchanged


\* getAllUsers(page, limit)
StartGetAllUsers(p, page, limit) ==
  /\ Accept(p)
  /\ req' = [req EXCEPT ![p] =
       [Idle EXCEPT !.kind = "getAllUsers", !.pc = "count",
                    !.page = page, !.limit = limit]]
  /\ started' = started + 1
  /\ UNCHANGED <<dbUp, products, users, redisUp, faults, lastDone, taint>>
  /\ CacheUnchanged /\ RestUnchanged

\* getAllUsers: const offset = (page - 1) * limit
\*              await this.userRepository.findAll(undefined, {page, limit, offset}),
\* to the COUNT statement of findAll
getAllUsers_count(p) ==
  LET r == req[p]
      c == findAllCount(users)
      r1 == Called([r EXCEPT !.offset = (r.page - 1) * r.limit], "findAll", FALSE,
                   c.err)
  IN
  /\ r.kind = "getAllUsers" /\ r.pc = "count"
  /\ req' = [req EXCEPT ![p] =
       IF c.err # "none" THEN Finish(r1, "Error", c.err)
       ELSE [r1 EXCEPT !.total = c.total, !.pc = "page"]]
  /\ UNCHANGED <<dbUp, products, users, redisUp, started, faults, lastDone, taint>>
  /\ CacheUnchanged /\ RestUnchanged

\* findAll from its SELECT statement to its return; getAllUsers maps the page
\* through mapToResponseDto (data holds the ids of the page)
getAllUsers_page(p) ==
  LET r == req[p]
      f == findAllPage(users, r.total, r.limit, r.offset)
      r1 == Returned(r, f.err)
  IN
  /\ r.kind = "getAllUsers" /\ r.pc = "page"
  /\ req' = [req EXCEPT ![p] =
       IF f.err # "none" THEN Finish(r1, "Error", f.err)
       ELSE Finish([r1 EXCEPT !.data = f.data, !.totalPages = f.totalPages,
                              !.moved = (oracledb = "live"
                                          /\ Len(IdsFrom(users, 1)) # r.total)],
                   "returned", "none")]
  /\ UNCHANGED <<dbUp, products, users, redisUp, started, faults, lastDone, taint>>
  /\ CacheUnchanged /\ RestUnchanged

\* The partial users a caller can hand to create / update: every subset of the
\* fields of User, each field with one value
Partials ==
  LET v == [id |-> 2, email |-> "b", firstName |-> "n", lastName |-> "n",
            isActive |-> FALSE, createdAt |-> "Date", updatedAt |-> "Date"]
  IN {[k \in S |-> v[k]] : S \in SUBSET DOMAIN v}

\* const row = this.mapModelToRow(model), as create and update begin
mapModelToRow_call(p, model) ==
  /\ Accept(p)
  /\ req' = [req EXCEPT ![p] =
       Finish([Idle EXCEPT !.kind = "mapModelToRow", !.model = model,
                           !.row = mapModelToRow(model)],
              "returned", "none")]
  /\ started' = started + 1
  /\ UNCHANGED <<dbUp, products, users, redisUp, faults, lastDone, taint>>
  /\ CacheUnchanged /\ RestUnchanged

----------------------------------------------------------------------------
(* UserController (features/users/user.controller.ts) and the global         *)
(* errorHandler (core/middleware/error.middleware.ts)                        *)

\* The id path parameters: -1, 0, 1, 2, 1.5 and one that is not a number
RawIds ==
  {[num |-> TRUE, int |-> TRUE, n |-> k] : k \in {-1, 0} \cup UserIds}
    \cup {[num |-> TRUE, int |-> FALSE, n |-> 1], [num |-> FALSE, int |-> FALSE, n |-> 0]}

\* userIdSchema.validate({ id }).error is undefined:
\* Joi.number().integer().positive().required()
userIdSchema(raw) == raw.num /\ raw.int /\ raw.n > 0

\* UserController that hands every numeric id to the service unvalidated
Controller_unvalidated(p, kind, raw, body) ==
  LET r == [Idle EXCEPT !.kind = kind, !.raw = raw, !.email = body] IN
  /\ Accept(p)
  /\ req' = [req EXCEPT ![p] =
       IF body = "malformed"
       THEN Throw(r, "SyntaxError", [text |-> "Unexpected token", id |-> 0])
       ELSE IF ~raw.num \/ raw.n < 1
       THEN Throw(r, "ValidationError", [text |-> "Invalid user ID", id |-> 0])
       ELSE IF kind = "updateUser" /\ body = "empty"
       THEN Throw(r, "ValidationError", [text |-> "Validation failed", id |-> 0])
       ELSE [r EXCEPT !.id = raw.n,
                      !.pc = IF kind = "deleteUser" THEN "delete" ELSE "find"]]
  /\ started' = started + 1
  /\ UNCHANGED <<dbUp, products, users, redisUp, faults, lastDone, taint>>
  /\ CacheUnchanged /\ RestUnchanged

\* UserController.getUserById / updateUser / deleteUser, to the first await of
\* the service method.  express.json() turns a malformed body down with a
\* SyntaxError before the controller runs; the controller validates the id,
\* then (updateUser) the body, whose schema wants at least one key.
Controller(p, kind, raw, body) ==
  LET r == [Idle EXCEPT !.kind = kind, !.raw = raw, !.email = body] IN
  /\ Accept(p)
  /\ req[p].pc = "done" /\ req[p].status # "returned" => req[p].res # 0
  /\ kind = "updateUser" /\ userIdSchema(raw) /\ body \notin {"empty", "malformed"} =>
       (IF users[raw.n].exists THEN users[raw.n].ver ELSE 0)
         + Cardinality({q \in Procs : InFlight(q) /\ req[q].kind = "updateUser"
                                       /\ req[q].id = raw.n}) < MaxVer
  /\ req' = [req EXCEPT ![p] =
       IF body = "malformed"
       THEN Throw(r, "SyntaxError", [text |-> "Unexpected token", id |-> 0])
       ELSE IF ~userIdSchema(raw)
       THEN Throw(r, "ValidationError", [text |-> "Invalid user ID", id |-> 0])
       ELSE IF kind = "updateUser" /\ body = "empty"
       THEN Throw(r, "ValidationError", [text |-> "Validation failed", id |-> 0])
       ELSE [r EXCEPT !.id = raw.n,
                      !.pc = IF kind = "deleteUser" THEN "delete" ELSE "find"]]
  /\ started' = started + 1
  /\ UNCHANGED <<dbUp, products, users, redisUp, faults, lastDone, taint>>
  /\ CacheUnchanged /\ RestUnchanged

\* errorHandler that answers every error as a server fault
errorHandler_serverFault(err) ==
  [statusCode |-> 500, message |-> "Internal server error"]

\* errorHandler: the statusCode and message of the response for err
errorHandler(err) ==
  IF err.http THEN [statusCode |-> err.statusCode, message |-> err.message]
  ELSE IF err.name = "ValidationError"
  THEN [statusCode |-> 400, message |-> "Validation error"]
  ELSE IF err.name = "UnauthorizedError"
  THEN [statusCode |-> 401, message |-> err.message]
  ELSE IF err.name = "SyntaxError" /\ err.body
  THEN [statusCode |-> 400, message |-> "Invalid JSON in request body"]
  ELSE [statusCode |-> 500, message |-> "Internal server error"]

\* The rejected controller promise reaches errorHandler through next(err):
\* res.status(statusCode).json(errorResponse).  ValidationError and
\* NotFoundError are HttpErrors constructed with 400 and 404; a failure of the
\* store, a stub that is not implemented and a TypeError are plain Errors.
errorHandler_respond(p) ==
  LET r == req[p]
      e == errorHandler(
             [http |-> r.status \in {"ValidationError", "NotFoundError"},
              statusCode |-> IF r.status = "NotFoundError" THEN 404 ELSE 400,
              name |-> IF r.status # "Error" THEN r.status
                       ELSE IF r.cause = "TypeError" THEN "TypeError" ELSE "Error",
              message |-> r.msg.text,
              body |-> r.status = "SyntaxError"])
  IN
  /\ r.kind \in UserKinds /\ r.pc = "done" /\ r.status # "returned" /\ r.res = 0
  /\ req' = [req EXCEPT ![p] = [r EXCEPT !.res = e.statusCode, !.resMsg = e.message]]
  /\ UNCHANGED <<dbUp, products, users, redisUp, started, faults, lastDone, taint>>
  /\ CacheUnchanged /\ RestUnchanged

----------------------------------------------------------------------------
(* core/middleware/auth *)

StubApiKeyId == "stub-api-key-id"

\* JavaScript truthiness of a header value: undefined and "" are falsy
Present(h) == h # Absent /\ h # ""

\* res.status(code).json(...) without the return: the middleware runs on to next()
Respond_thenNext(r, code, cause) ==
  [r EXCEPT !.pc = "done", !.res = code, !.cause = cause, !.nNext = @ + 1]

\* res.status(code).json(...); return
Respond(r, code, cause) == [r EXCEPT !.pc = "done", !.res = code, !.cause = cause]

\* next()
CallNext(r) == [r EXCEPT !.pc = "done", !.nNext = @ + 1]

StartAuth(p, kind, hdrId, hdrKey) ==
  /\ Accept(p) /\ started < MaxAuthReqs
  /\ req' = [req EXCEPT ![p] =
       [Idle EXCEPT !.kind = kind, !.pc = "entry", !.hdrId = hdrId, !.hdrKey = hdrKey,
                    !.floor = IF hdrKey \in Keys /\ marked[hdrKey] THEN 1 ELSE 0]]
  /\ started' = started + 1
  /\ UNCHANGED <<dbUp, products, users, redisUp, faults, lastDone, taint>>
  /\ CacheUnchanged /\ RestUnchanged

\* The body of validateSSOAuth: it has no await
SSOAuth(r) ==
  IF ~Present(r.hdrId) THEN Respond(r, 401, "none")
  ELSE CallNext([r EXCEPT !.identityId = r.hdrId, !.isApiKeyAuth = "false"])

\* ApiKeyAuthEntry that acts on a cached entry only when it is valid: a cached
\* marker is treated as a miss
ApiKeyAuthEntry_validOnly(r) ==
  IF ~Present(r.hdrKey)
  THEN [r |-> Respond(r, 401, "none"), c |-> Skipped]
  ELSE LET c == getCache(cacheKeyApiKey(r.hdrKey))
           r1 == [r EXCEPT !.nGet = @ + 1, !.cfail = Failed(@, c, "get"),
                           !.seen = IF c.val.isNull THEN "miss"
                                    ELSE IF c.val.isValid THEN "valid" ELSE "invalid"]
       IN [c |-> c,
           r |-> IF c.threw THEN Respond(r1, 500, "cache")
                 ELSE IF ~c.val.isNull /\ c.val.isValid
                 THEN CallNext([r1 EXCEPT !.hit = TRUE, !.apiKeyId = c.val.id,
                                          !.isApiKeyAuth = "true"])
                 ELSE [r1 EXCEPT !.pc = "kdb"]]

\* ApiKeyAuthEntry that goes to the store without consulting the cache
ApiKeyAuthEntry_storeFirst(r) ==
  IF ~Present(r.hdrKey)
  THEN [r |-> Respond(r, 401, "none"), c |-> Skipped]
  ELSE [r |-> [r EXCEPT !.pc = "kdb"], c |-> Skipped]

\* validateApiKeyAuth from its entry to the return of getCache: the request as
\* it goes on (r) and what the cache call left behind (c)
ApiKeyAuthEntry(r) ==
  IF ~Present(r.hdrKey)
  THEN [r |-> Respond(r, 401, "none"), c |-> Skipped]
  ELSE LET c == getCache(cacheKeyApiKey(r.hdrKey))
           r1 == [r EXCEPT !.nGet = @ + 1, !.cfail = Failed(@, c, "get"),
                           !.seen = IF c.val.isNull THEN "miss"
                                    ELSE IF c.val.isValid THEN "valid" ELSE "invalid"]
       IN [c |-> c,
           r |-> IF c.threw THEN Respond(r1, 500, "cache")
                 ELSE IF ~c.val.isNull
                 THEN IF ~c.val.isValid
                      THEN Respond([r1 EXCEPT !.hit = TRUE], 401, "none")
                      ELSE CallNext([r1 EXCEPT !.hit = TRUE, !.apiKeyId = c.val.id,
                                               !.isApiKeyAuth = "true"])
                 ELSE [r1 EXCEPT !.pc = "kdb"]]

validateSSOAuth(p) ==
  /\ req[p].kind = "validateSSOAuth" /\ req[p].pc = "entry"
  /\ req' = [req EXCEPT ![p] = SSOAuth(req[p])]
  /\ UNCHANGED <<dbUp, products, users, redisUp, started, faults, lastDone, taint>>
  /\ CacheUnchanged /\ RestUnchanged

validateApiKeyAuth(p) ==
  LET e == ApiKeyAuthEntry(req[p]) IN
  /\ req[p].kind = "validateApiKeyAuth" /\ req[p].pc = "entry"
  /\ req' = [req EXCEPT ![p] = e.r]
  /\ ApplyCache(e.c)
  /\ UNCHANGED <<dbUp, products, users, redisUp, started, faults, lastDone, taint>>
  /\ RestUnchanged

\* AnyAuth that lets a request with neither header through
AnyAuth_anonymous(r) ==
  IF Present(r.hdrId) THEN [r |-> SSOAuth(r), c |-> Skipped]
  ELSE IF Present(r.hdrKey) THEN ApiKeyAuthEntry(r)
  ELSE [r |-> CallNext(r), c |-> Skipped]

\* AnyAuth that tries the API key before the identity header
AnyAuth_keyFirst(r) ==
  IF Present(r.hdrKey) THEN ApiKeyAuthEntry(r)
  ELSE IF Present(r.hdrId) THEN [r |-> SSOAuth(r), c |-> Skipped]
  ELSE [r |-> Respond(r, 401, "none"), c |-> Skipped]

\* validateAnyAuth: the identity header first, then the API key, else 401
AnyAuth(r) ==
  IF Present(r.hdrId) THEN [r |-> SSOAuth(r), c |-> Skipped]
  ELSE IF Present(r.hdrKey) THEN ApiKeyAuthEntry(r)
  ELSE [r |-> Respond(r, 401, "none"), c |-> Skipped]

validateAnyAuth(p) ==
  LET e == AnyAuth(req[p]) IN
  /\ req[p].kind = "validateAnyAuth" /\ req[p].pc = "entry"
  /\ req' = [req EXCEPT ![p] = e.r]
  /\ ApplyCache(e.c)
  /\ UNCHANGED <<dbUp, products, users, redisUp, started, faults, lastDone, taint>>
  /\ RestUnchanged

\* validateApiKeyInDatabase: the stub accepts every non-empty key; the live body
\* looks the key up among the active keys and rejects an expired one.  Its catch
\* turns every error of the lookup into false.
validateApiKeyInDatabase(apiKey) ==
  IF oracledb = "stub" THEN apiKey # ""
  ELSE IF getConnectionRaises THEN FALSE
  ELSE apiKeys[apiKey] = "active"

\* const isValid = await validateApiKeyInDatabase(apiKey)
validateApiKeyAuth_database(p) ==
  LET r == req[p] IN
  /\ r.kind \in {"validateApiKeyAuth", "validateAnyAuth"} /\ r.pc = "kdb"
  /\ req' = [req EXCEPT ![p] =
       [r EXCEPT !.pc = "kset", !.nDb = @ + 1,
                 !.isValid = validateApiKeyInDatabase(r.hdrKey),
                 !.cause = IF getConnectionRaises THEN "store" ELSE "none"]]
  /\ UNCHANGED <<dbUp, products, users, redisUp, started, faults, lastDone, taint>>
  /\ CacheUnchanged /\ RestUnchanged

\* The value validateApiKeyAuth caches for a verdict
ApiKeyCacheValue(isValid) ==
  IF isValid THEN [isNull |-> FALSE, id |-> StubApiKeyId, isValid |-> TRUE]
  ELSE [isNull |-> FALSE, id |-> Absent, isValid |-> FALSE]

\* if (!isValid) { await setCache(cacheKey, { isValid: false }, ttl); 401 }
\* await setCache(cacheKey, { id: apiKeyId, isValid: true }, ttl); next()
validateApiKeyAuth_setCache(p) ==
  LET r == req[p]
      c == setCache(cacheKeyApiKey(r.hdrKey), ApiKeyCacheValue(r.isValid), keyCacheTTL)
      r1 == [r EXCEPT !.nSet = @ + 1, !.ttl = keyCacheTTL, !.cfail = Failed(@, c, "set")]
  IN
  /\ r.kind \in {"validateApiKeyAuth", "validateAnyAuth"} /\ r.pc = "kset"
  /\ ApplyCache(c)
  /\ req' = [req EXCEPT ![p] =
       IF c.threw THEN Respond(r1, 500, "cache")
       ELSE IF ~r.isValid THEN Respond(r1, 401, r.cause)
       ELSE CallNext([r1 EXCEPT !.apiKeyId = StubApiKeyId, !.isApiKeyAuth = "true"])]
  /\ marked' = [marked EXCEPT ![r.hdrKey] = ~r.isValid]
  /\ UNCHANGED <<dbUp, products, users, redisUp, started, faults, lastDone, taint>>
  /\ ConfigUnchanged

----------------------------------------------------------------------------
(* A caller of hasCache.  The function is exported; no handler of the       *)
(* repository calls it yet.                                                 *)

StartHasCache(p, key) ==
  /\ Accept(p)
  /\ req' = [req EXCEPT ![p] =
       [Idle EXCEPT !.kind = "hasCache", !.pc = "has",
                    !.id = IF key[1] = "product" THEN key[2] ELSE 0,
                    !.hdrKey = IF key[1] = "api_key" THEN key[2] ELSE Absent]]
  /\ started' = started + 1
  /\ UNCHANGED <<dbUp, products, users, redisUp, faults, lastDone, taint>>
  /\ CacheUnchanged /\ RestUnchanged

hasCache_call(p) ==
  LET r == req[p]
      c == hasCache(IF r.hdrKey = Absent THEN cacheKeyProduct(r.id)
                    ELSE cacheKeyApiKey(r.hdrKey))
      r1 == [r EXCEPT !.nHas = @ + 1, !.cfail = Failed(@, c, "has"),
                      !.seen = IF c.val.isNull THEN "false" ELSE "true"]
  IN
  /\ r.kind = "hasCache" /\ r.pc = "has" /\ proc.phase # "exited"
  /\ ApplyCache(c)
  /\ req' = [req EXCEPT ![p] =
       IF c.threw THEN Finish(r1, "Error", "cache") ELSE Finish(r1, "returned", "none")]
  /\ UNCHANGED <<dbUp, products, users, redisUp, started, faults, lastDone, taint>>
  /\ RestUnchanged

----------------------------------------------------------------------------
(* A call of buildWhereClause, as BaseRepository.findAll makes it before it  *)
(* asks for a connection: const whereClause = this.buildWhereClause(filters) *)

StartWhere(p, filters) ==
  /\ Accept(p)
  /\ req' = [req EXCEPT ![p] =
       [Idle EXCEPT !.kind = "buildWhereClause", !.pc = "where", !.filters = filters]]
  /\ started' = started + 1
  /\ UNCHANGED <<dbUp, products, users, redisUp, faults, lastDone, taint>>
  /\ CacheUnchanged /\ RestUnchanged

buildWhereClause_call(p) ==
  LET r == req[p] IN
  /\ r.kind = "buildWhereClause" /\ r.pc = "where"
  /\ req' = [req EXCEPT ![p] =
       Finish([r EXCEPT !.clause = buildWhereClause(r.filters)], "returned", "none")]
  /\ UNCHANGED <<dbUp, products, users, redisUp, started, faults, lastDone, taint>>
  /\ CacheUnchanged /\ RestUnchanged

----------------------------------------------------------------------------
(* The environment: the store, the Redis server, time *)

ReqUnchanged == UNCHANGED <<req, started, lastDone>>

\* The store stops accepting statements, and accepts them again
StoreDown ==
  /\ oracledb = "live" /\ dbUp /\ faults < MaxFaults
  /\ dbUp' = FALSE /\ faults' = faults + 1
  /\ UNCHANGED <<products, users, redisUp, taint>>
  /\ ReqUnchanged /\ CacheUnchanged /\ RestUnchanged

StoreUp ==
  /\ ~dbUp
  /\ dbUp' = TRUE
  /\ UNCHANGED <<products, users, redisUp, faults, taint>>
  /\ ReqUnchanged /\ CacheUnchanged /\ RestUnchanged

\* The Redis server stops answering, and answers again; its keys survive
RedisDown ==
  /\ redisEnabled /\ redisUp /\ faults < MaxFaults
  /\ redisUp' = FALSE /\ faults' = faults + 1
  /\ UNCHANGED <<dbUp, products, users, taint>>
  /\ ReqUnchanged /\ CacheUnchanged /\ RestUnchanged

RedisUp ==
  /\ ~redisUp
  /\ redisUp' = TRUE
  /\ UNCHANGED <<dbUp, products, users, faults, taint>>
  /\ ReqUnchanged /\ CacheUnchanged /\ RestUnchanged

\* retryStrategy, called with times > 3, and the catch of connect():
\* redisAvailable = false, and the warning unless errorLogged
RedisGiveUp ==
  /\ redisClient = "client" /\ ~redisUp /\ redisAvailable
  /\ redisAvailable' = FALSE
  /\ errorLogged' = TRUE
  /\ retry' = [retry EXCEPT !.warned = IF errorLogged THEN @ ELSE @ + 1]
  /\ UNCHANGED <<dbUp, products, users, redisUp, faults, taint, kv, redisClient>>
  /\ ReqUnchanged /\ RestUnchanged

\* redisClient.on('connect') and on('ready'): redisAvailable = true,
\* errorLogged = false; the count of attempts starts again
RedisConnected ==
  /\ redisClient = "client" /\ redisUp /\ (~redisAvailable \/ retry.times > 0)
  /\ redisAvailable' = TRUE
  /\ errorLogged' = FALSE
  /\ retry' = [times |-> 0, delay |-> 0, stop |-> FALSE, warned |-> 0]
  /\ UNCHANGED <<dbUp, products, users, redisUp, faults, taint, kv, redisClient>>
  /\ ReqUnchanged /\ RestUnchanged

\* retryStrategy that never gives up
retryStrategy_unbounded(times) ==
  [stop |-> FALSE, delay |-> IF times * 50 < 2000 THEN times * 50 ELSE 2000,
   avail |-> redisAvailable, logged |-> errorLogged, warns |-> 0]

\* retryStrategy(times) of the client built by initializeRedis: what it returns
\* (stop: null), and what it leaves in redisAvailable and errorLogged
retryStrategy(times) ==
  IF times > 3
  THEN [stop |-> TRUE, delay |-> 0, avail |-> FALSE, logged |-> TRUE,
        warns |-> IF errorLogged THEN 0 ELSE 1]
  ELSE [stop |-> FALSE, delay |-> IF times * 50 < 2000 THEN times * 50 ELSE 2000,
        avail |-> redisAvailable, logged |-> errorLogged, warns |-> 0]

\* The client lost its connection and asks retryStrategy for the next attempt;
\* after null it asks no more
retryStrategy_call ==
  LET s == retryStrategy(retry.times + 1) IN
  /\ redisClient = "client" /\ ~redisUp /\ ~retry.stop /\ proc.phase # "exited"
  /\ retry' = [times |-> retry.times + 1, delay |-> s.delay, stop |-> s.stop,
               warned |-> retry.warned + s.warns]
  /\ redisAvailable' = s.avail
  /\ errorLogged' = s.logged
  /\ UNCHANGED <<dbUp, products, users, redisUp, faults, taint, kv, redisClient>>
  /\ ReqUnchanged /\ RestUnchanged

\* redisClient.on('error'): one warning unless one has been logged
RedisError ==
  /\ redisClient = "client" /\ ~redisUp /\ ~errorLogged /\ proc.phase # "exited"
  /\ errorLogged' = TRUE
  /\ retry' = [retry EXCEPT !.warned = @ + 1]
  /\ UNCHANGED <<dbUp, products, users, redisUp, faults, taint, kv, redisClient,
                 redisAvailable>>
  /\ ReqUnchanged /\ RestUnchanged

\* The time-to-live of an entry written with SETEX runs out
Expire(key) ==
  /\ kv[key].present /\ kv[key].ttl > 0
  /\ kv' = [kv EXCEPT ![key] = NoEntry]
  /\ taint' = IF key[1] = "product" THEN [taint EXCEPT ![key[2]] = "none"] ELSE taint
  /\ marked' = IF key[1] = "api_key" THEN [marked EXCEPT ![key[2]] = FALSE] ELSE marked
  /\ UNCHANGED <<dbUp, products, users, redisUp, faults, redisClient, redisAvailable,
                 errorLogged, retry>>
  /\ ReqUnchanged /\ ConfigUnchanged

----------------------------------------------------------------------------
(* HealthService (features/health/health.service.ts).  A check reports       *)
(* connected "true" or "false"; "pending" is a check at its await, "threw"   *)
(* a check whose promise rejected.                                           *)

\* getDetailedHealth that counts the Redis check whether Redis is enabled or not
getDetailedHealth_redisAlways(dbHealth, redisHealth) ==
  IF dbHealth = "threw" \/ redisHealth = "threw"
  THEN [status |-> "DOWN", database |-> "UNKNOWN", redis |-> "UNKNOWN"]
  ELSE [status   |-> IF dbHealth = "true" /\ redisHealth = "true" THEN "UP" ELSE "DOWN",
        database |-> IF dbHealth = "true" THEN "UP" ELSE "DOWN",
        redis    |-> IF redisHealth = "true" THEN "UP" ELSE "DOWN"]

\* getDetailedHealth after Promise.all: the report of the two results, and the
\* report of its catch block
getDetailedHealth(dbHealth, redisHealth) ==
  IF dbHealth = "threw" \/ redisHealth = "threw"
  THEN [status |-> "DOWN", database |-> "UNKNOWN", redis |-> "UNKNOWN"]
  ELSE LET isHealthy == IF redisEnabled
                        THEN dbHealth = "true" /\ redisHealth = "true"
                        ELSE dbHealth = "true"
       IN [status   |-> IF isHealthy THEN "UP" ELSE "DOWN",
           database |-> IF dbHealth = "true" THEN "UP" ELSE "DOWN",
           redis    |-> IF redisHealth = "true" THEN "UP" ELSE "DOWN"]

\* getDetailedHealth / getReadinessHealth up to `await Promise.all`: both checks
\* run to their first await.  checkDatabaseHealth as shipped returns connected;
\* with its statements in place it awaits getConnection.  checkRedisHealth
\* returns not connected when Redis is disabled or unavailable, and else
\* takes the client (getRedisClient) and awaits ping.
StartHealth(p, kind) ==
  LET pings == redisEnabled /\ redisAvailable
      c == getRedisClient
  IN
  /\ Accept(p)
  /\ req' = [req EXCEPT ![p] =
       [Idle EXCEPT !.kind = kind, !.pc = "checks",
                    !.dbHealth = IF oracledb = "stub" THEN "true" ELSE "pending",
                    !.redisHealth = IF pings THEN "pending" ELSE "false"]]
  /\ started' = started + 1
  /\ redisClient' = IF pings THEN c.client ELSE redisClient
  /\ UNCHANGED <<dbUp, products, users, redisUp, faults, lastDone, taint, kv,
                 redisAvailable, errorLogged, retry>>
  /\ RestUnchanged

\* checkDatabaseHealth after its await: connected, or its catch block
checkDatabaseHealth(p) ==
  LET r == req[p] IN
  /\ r.pc = "checks" /\ r.dbHealth = "pending" /\ proc.phase # "exited"
  /\ req' = [req EXCEPT ![p] =
       [r EXCEPT !.dbHealth = IF getConnectionRaises THEN "false" ELSE "true"]]
  /\ UNCHANGED <<dbUp, products, users, redisUp, started, faults, lastDone, taint>>
  /\ CacheUnchanged /\ RestUnchanged

\* checkRedisHealth after `await client.ping()`: connected, or its catch block
\* (the server does not answer, or the client has been quit meanwhile)
checkRedisHealth(p) ==
  LET r == req[p] IN
  /\ r.pc = "checks" /\ r.redisHealth = "pending" /\ proc.phase # "exited"
  /\ req' = [req EXCEPT ![p] =
       [r EXCEPT !.redisHealth = IF redisUp /\ redisClient # Null
                                 THEN "true" ELSE "false"]]
  /\ UNCHANGED <<dbUp, products, users, redisUp, started, faults, lastDone, taint>>
  /\ CacheUnchanged /\ RestUnchanged

\* Promise.all has both results: getDetailedHealth returns its report
getDetailedHealth_return(p) ==
  LET r == req[p] IN
  /\ r.pc = "checks" /\ "pending" \notin {r.dbHealth, r.redisHealth}
  /\ proc.phase # "exited"
  /\ req' = [req EXCEPT ![p] =
       Finish([r EXCEPT !.report = getDetailedHealth(r.dbHealth, r.redisHealth)],
              "returned", "none")]
  /\ UNCHANGED <<dbUp, products, users, redisUp, started, faults, lastDone, taint>>
  /\ CacheUnchanged /\ RestUnchanged

----------------------------------------------------------------------------
(* server.ts: graceful shutdown.  proc.phase is "serving" until a signal,    *)
(* then the await the shutdown sequence is at, then "exited".                *)

\* A step of the process that leaves requests, tables and the cache alone
ProcStep(next) ==
  /\ proc' = next
  /\ UNCHANGED <<oracledb, apiKeys, keyCacheTTL, redisEnabled, dbUp, products, users,
                 redisUp, faults, taint, marked, kv, redisAvailable, errorLogged, retry>>
  /\ ReqUnchanged

\* process.on('SIGTERM' / 'SIGINT', shutdown): server.close(callback) and
\* setTimeout(..., 10000).  A further signal finds the server closing.
shutdown ==
  /\ proc.phase = "serving"
  /\ ProcStep([proc EXCEPT !.phase = "serverClose"])
  /\ UNCHANGED redisClient

\* The callback of server.close, to await closeDatabase().  The server has
\* closed when its connections have ended; the handler of a request whose
\* client went away can still be running.
shutdown_serverClosed ==
  /\ proc.phase = "serverClose"
  /\ ProcStep([proc EXCEPT !.phase = "closeDatabase", !.closed = Append(@, "http")])
  /\ UNCHANGED redisClient

\* closeDatabase that goes on to process.exit(0) without closing Redis
closeDatabase_skipRedis ==
  /\ proc.phase = "closeDatabase"
  /\ ProcStep(IF getConnectionRaises
              THEN [proc EXCEPT !.phase = "exited", !.code = 1]
              ELSE [proc EXCEPT !.pool = Null, !.closed = Append(@, "db"),
                                !.phase = "exited"])
  /\ UNCHANGED redisClient

\* closeDatabase returns (pool = null) or, with `await pool.close(10)` in
\* place and the database away, throws; then, with Redis enabled,
\* await closeRedis(); without, process.exit(0)
closeDatabase ==
  /\ proc.phase = "closeDatabase"
  /\ ProcStep(IF getConnectionRaises
              THEN [proc EXCEPT !.phase = "exited", !.code = 1]
              ELSE [proc EXCEPT !.pool = Null, !.closed = Append(@, "db"),
                                !.phase = IF redisEnabled THEN "closeRedis" ELSE "exited"])
  /\ UNCHANGED redisClient

\* closeRedis: if (redisClient) { await redisClient.quit(); redisClient = null };
\* quit can reject when the server does not answer, and closeRedis rethrows:
\* process.exit(1)
closeRedis ==
  /\ proc.phase = "closeRedis"
  /\ \/ /\ redisClient # Null /\ ~redisUp
        /\ ProcStep([proc EXCEPT !.phase = "exited", !.code = 1])
        /\ UNCHANGED redisClient
     \/ /\ ProcStep([proc EXCEPT !.phase = "exit",
                                 !.closed = IF redisClient # Null
                                            THEN Append(@, "redis") ELSE @])
        /\ redisClient' = Null

\* After await closeRedis(): process.exit(0)
shutdown_exit ==
  /\ proc.phase = "exit"
  /\ ProcStep([proc EXCEPT !.phase = "exited"])
  /\ UNCHANGED redisClient

\* A second passes after the signal
Tick ==
  /\ proc.phase \notin {"serving", "exited"} /\ proc.clock < ShutdownTimeout
  /\ ProcStep([proc EXCEPT !.clock = @ + 1])
  /\ UNCHANGED redisClient

\* The timer of shutdown fires: process.exit(1)
shutdown_timeout ==
  /\ proc.phase \notin {"serving", "exited"} /\ proc.clock = ShutdownTimeout
  /\ ProcStep([proc EXCEPT !.phase = "exited", !.code = 1])
  /\ UNCHANGED redisClient

----------------------------------------------------------------------------
(* The state after startServer: connections initialised, no request yet *)

Init ==
  /\ oracledb \in {"stub", "live"}
  /\ dbUp = TRUE
  /\ products \in [ProductIds ->
       {NoRow, [exists |-> TRUE, sku |-> "s1", ver |-> 0, isActive |-> TRUE]}]
  /\ users = [i \in UserIds |->
       IF i = 1 THEN [exists |-> TRUE, email |-> "a", ver |-> 0, isActive |-> TRUE]
       ELSE NoRow]
  /\ apiKeys = [k \in Keys |-> IF k = "k1" THEN "active" ELSE "none"]
  /\ keyCacheTTL \in {DefaultKeyCacheTTL, 0, NaN}
  /\ redisEnabled \in BOOLEAN
  /\ redisClient = IF redisEnabled THEN "client" ELSE Null
  /\ redisAvailable = TRUE
  /\ redisUp = TRUE
  /\ kv = [k \in CacheKeys |-> NoEntry]
  /\ req = [p \in Procs |-> Idle]
  /\ started = 0 /\ faults = 0
  /\ lastDone = [i \in ProductIds |-> 0]
  /\ taint = [i \in ProductIds |-> "none"]
  /\ marked = [k \in Keys |-> FALSE]
  /\ proc = [phase |-> "serving", code |-> 0, pool |-> "pool", closed |-> <<>>,
             clock |-> 0]
  /\ errorLogged = FALSE
  /\ retry = [times |-> 0, delay |-> 0, stop |-> FALSE, warned |-> 0]

\* The requests of ProductService, accepted on the slots P
StartsProduct(P) ==
  \/ \E p \in P, id \in ProductIds :
       \/ StartProduct(p, "getProductById", id, Absent)
       \/ StartProduct(p, "updateProduct", id, Absent)
       \/ StartProduct(p, "deleteProduct", id, Absent)
  \/ \E p \in P, sku \in Skus : StartProduct(p, "createProduct", 0, sku)

StepsProduct ==
  \E p \in Procs :
     \/ getProductById_getCache(p)
     \/ getProductById_findById(p)
     \/ getProductById_setCache(p)
     \/ productWrite_update(p)
     \/ productWrite_reselect(p)
     \/ productWrite_deleteCache(p)
     \/ createProduct_validateUniqueSKU(p)
     \/ createProduct_create(p)
     \/ createProduct_reselect(p)

NextProduct == StartsProduct(Procs) \/ StepsProduct

\* The requests that pass the authentication middleware
StartsAuth(P) ==
  \E p \in P, h \in HeaderValues, k \in KeyValues :
     \/ StartAuth(p, "validateSSOAuth", h, k)
     \/ StartAuth(p, "validateApiKeyAuth", h, k)
     \/ StartAuth(p, "validateAnyAuth", h, k)

StepsAuth ==
  \E p \in Procs :
     \/ validateSSOAuth(p)
     \/ validateApiKeyAuth(p)
     \/ validateAnyAuth(p)
     \/ validateApiKeyAuth_database(p)
     \/ validateApiKeyAuth_setCache(p)

NextAuth == StartsAuth(Procs) \/ StepsAuth

\* The requests of UserService
NextUser ==
  \/ \E p \in Procs, id \in UserIds :
       \/ StartUser(p, "getUserById", id, Absent)
       \/ StartUser(p, "deleteUser", id, Absent)
       \/ \E e \in Emails \cup {Absent} : StartUser(p, "updateUser", id, e)
  \/ \E p \in Procs, e \in Emails : StartUser(p, "createUser", 0, e)
  \/ \E p \in Procs, page \in 0..MaxPage, limit \in 0..MaxLimit :
       StartGetAllUsers(p, page, limit)
  \/ \E p \in Procs :
       \/ getAllUsers_count(p)
       \/ getAllUsers_page(p)
       \/ user_findById(p)
       \/ user_findByEmail(p)
       \/ createUser_create(p)
       \/ updateUser_update(p)
       \/ user_reselect(p)
       \/ deleteUser_delete(p)

NextEnv ==
  \/ StoreDown \/ StoreUp \/ RedisDown \/ RedisUp \/ RedisGiveUp \/ RedisConnected
  \/ \E key \in CacheKeys : Expire(key)

\* The process serves one request at a time: requests are accepted on one slot
OneSlot == {"p1"}

NextOne ==
  \/ StartsProduct(OneSlot) \/ StepsProduct
  \/ StartsAuth(OneSlot) \/ StepsAuth
  \/ \E p \in OneSlot, key \in CacheKeys : StartHasCache(p, key)
  \/ \E p \in Procs : hasCache_call(p)
  \/ NextEnv

NoProducts == \A i \in ProductIds : ~products[i].exists

InitCache == Init /\ keyCacheTTL = DefaultKeyCacheTTL

InitAuth == Init /\ NoProducts

InitServer == Init /\ keyCacheTTL = DefaultKeyCacheTTL /\ NoProducts

InitUser == Init /\ keyCacheTTL = DefaultKeyCacheTTL /\ ~redisEnabled /\ NoProducts

\* ProductService over the repository and the cache
SpecCache == InitCache /\ [][NextProduct \/ NextEnv]_vars

\* The authentication middleware over the cache and the api_keys table
SpecAuth == InitAuth /\ [][NextAuth \/ NextEnv]_vars

\* Every handler that uses the cache, one request at a time
SpecOne == InitCache /\ [][NextOne]_vars

\* buildWhereClause applied to every filter list, the store going down and
\* coming back between calls
NextWhere ==
  \/ \E p \in OneSlot, f \in FilterArgs : StartWhere(p, f)
  \/ \E p \in Procs : buildWhereClause_call(p)
  \/ StoreDown \/ StoreUp

SpecWhere == InitUser /\ [][NextWhere]_vars

\* The user routes: controller, service, repository and errorHandler
NextHttp ==
  \/ \E p \in Procs, raw \in RawIds :
       \/ Controller(p, "getUserById", raw, Absent)
       \/ Controller(p, "deleteUser", raw, Absent)
       \/ \E b \in Emails \cup {Absent, "empty", "malformed"} :
            Controller(p, "updateUser", raw, b)
  \/ \E p \in Procs :
       \/ user_findById(p)
       \/ user_findByEmail(p)
       \/ updateUser_update(p)
       \/ user_reselect(p)
       \/ deleteUser_delete(p)
       \/ errorHandler_respond(p)
  \/ StoreDown \/ StoreUp

SpecHttp == InitUser /\ [][NextHttp]_vars

\* The process from startServer to its exit: callers of the cache, the events
\* of the Redis client, the store, and the shutdown sequence
NextServer ==
  \/ \E p \in OneSlot, key \in CacheKeys : StartHasCache(p, key)
  \/ \E p \in Procs : hasCache_call(p)
  \/ \E p \in OneSlot, kind \in {"getDetailedHealth", "getReadinessHealth"} :
       StartHealth(p, kind)
  \/ \E p \in Procs : checkDatabaseHealth(p)
  \/ \E p \in Procs : checkRedisHealth(p)
  \/ \E p \in Procs : getDetailedHealth_return(p)
  \/ StoreDown \/ StoreUp \/ RedisDown \/ RedisUp \/ RedisGiveUp \/ RedisConnected
  \/ retryStrategy_call \/ RedisError
  \/ shutdown \/ shutdown_serverClosed \/ closeDatabase \/ closeRedis
  \/ shutdown_exit \/ Tick \/ shutdown_timeout

SpecServer == InitServer /\ [][NextServer]_vars

\* The timer of shutdown runs: a second passes while one can, and the timer
\* fires when its time has come
SpecServerFair == SpecServer /\ WF_vars(Tick) /\ WF_vars(shutdown_timeout)

\* UserRepository.mapModelToRow applied to every partial user
SpecMap ==
  InitUser /\ [][\/ \E p \in OneSlot, model \in Partials : mapModelToRow_call(p, model)
                 \/ StoreDown \/ StoreUp]_vars

\* UserService over the repository
SpecUser == InitUser /\ [][NextUser \/ StoreDown \/ StoreUp]_vars
----------------------------------------------------------------------------
(* Claims on the cache-aside policy of ProductService (SpecCache) *)

DoneRead(p) ==
  /\ req[p].kind = "getProductById"
  /\ req[p].pc = "done"
  /\ req[p].status = "returned"

\* C1 as stated: a getProductById that starts after a write of the same id
\* has completed never returns a value older than that write, whatever the
\* interleaving of concurrent reads and writes.  (Stated for the runs in
\* which every deleteCache reached the cache, so that a violation is one of
\* interleaving alone.)
C1_ReadNeverOlderThanCompletedWrite ==
  \A p \in Procs :
    DoneRead(p) /\ req[p].taint # "kept" => req[p].val.ver >= req[p].floor

\* C1 amended: a getProductById that starts after a write of the same id has
\* completed returns a value older than that write only from a cache hit on
\* an entry that a read overlapping the write stored after the write's
\* deleteCache ("racy"), or that survived the write because its deleteCache
\* did not reach the cache ("kept"); a read that goes to the store, or hits
\* any other entry, returns the written value or a newer one.
C1_StaleOnlyFromRacyOrKeptEntry ==
  \A p \in Procs :
    DoneRead(p) /\ req[p].val.ver < req[p].floor =>
      req[p].hit /\ req[p].taint \in {"racy", "kept"}

\* A read started after a completed write returned what the write wrote
C1_Witness ==
  \E p \in Procs :
    DoneRead(p) /\ req[p].floor >= 1 /\ req[p].val.ver = req[p].floor

IsWrite(p) == req[p].kind \in WriteKinds

\* C2 as stated: a write applies the repository write first and deletes the
\* cache entry only after it succeeded; no write path ever puts a value into
\* the cache (no setCache within createProduct, updateProduct, deleteProduct).
C2_WriteNeverSetsCache ==
  \A p \in Procs :
    IsWrite(p) =>
      /\ req[p].nSet = 0
      /\ req[p].nDel > 0 => req[p].repo.op = "update" /\ req[p].repo.out = "entity"

\* C2 amended: in updateProduct and deleteProduct deleteCache is called once,
\* last, and only after repository.update returned without throwing (and,
\* in updateProduct, returned the row); a write that throws or reports not
\* found calls no deleteCache.  A write never caches what it wrote: the only
\* setCache within a write is that of the leading getProductById, which on a
\* miss stores the row as read before the write (TTL 300), also when the
\* write then fails.  createProduct makes no cache call.
C2_InvalidateAfterWriteOnly ==
  \A p \in Procs :
    LET r == req[p] IN
    IsWrite(p) =>
      /\ r.nDel <= 1
      /\ r.nDel = 1 =>
           /\ r.pc = "done" /\ r.status = "returned"
           /\ r.repo.op = "update"
           /\ r.repo.out \in (IF r.kind = "deleteProduct" THEN {"entity", "null"}
                              ELSE {"entity"})
      /\ r.pc = "done" /\ r.status # "returned" => r.nDel = 0
      /\ r.nSet <= 1
      /\ r.nSet = 1 => ~r.hit /\ r.nGet = 1 /\ r.ttl = ProductCacheTTL
      /\ r.pc \in {"get", "find", "set"} => r.nSet = 0 /\ r.wver = 0
      /\ r.pc = "set" => r.repo.op = "findById" /\ r.repo.out = "entity"
      /\ r.kind = "createProduct" => r.nGet + r.nSet + r.nDel + r.nHas = 0

\* An update that missed the cache, cached the old row, wrote and invalidated
C2_Witness ==
  \E p \in Procs :
    /\ req[p].kind = "updateProduct" /\ req[p].pc = "done"
    /\ req[p].status = "returned"
    /\ req[p].nSet = 1 /\ req[p].nDel = 1 /\ req[p].wver >= 1

\* C3: getProductById returns a cache entry it finds without querying the
\* repository; on a miss it queries the repository and, when the record is
\* found, calls setCache with it under TTL 300 and returns it; when the
\* record is not found it fails with NotFoundError and makes no cache write.
\* Every product entry in the cache carries that TTL.
C3_ReadPath ==
  /\ \A p \in Procs :
       LET r == req[p] IN
       r.kind = "getProductById" /\ r.pc = "done" =>
         /\ r.hit => r.status = "returned" /\ r.nDb = 0 /\ r.nSet = 0
                     /\ r.seen = "product" /\ ~r.val.isNull
         /\ ~r.hit /\ r.status = "returned" =>
              /\ r.nGet = 1 /\ r.nDb = 1
              /\ r.repo.op = "findById" /\ r.repo.out = "entity"
              /\ r.nSet = 1 /\ r.ttl = ProductCacheTTL
              /\ ~r.val.isNull /\ r.val.id = r.id
         /\ r.status = "NotFoundError" =>
              /\ r.nDb = 1 /\ r.repo.out = "null"
              /\ r.nSet = 0 /\ r.nDel = 0
         /\ r.nDel = 0
  /\ \A id \in ProductIds :
       kv[cacheKeyProduct(id)].present =>
         /\ kv[cacheKeyProduct(id)].ttl = ProductCacheTTL
         /\ ~kv[cacheKeyProduct(id)].val.isNull

\* A read missed, found the record and left it in the cache
C3_Witness ==
  \E p \in Procs :
    /\ DoneRead(p) /\ ~req[p].hit /\ req[p].nSet = 1
    /\ kv[cacheKeyProduct(req[p].id)].present
    /\ \E q \in Procs : q # p /\ DoneRead(q) /\ req[q].hit

----------------------------------------------------------------------------
(* Claims on the cache functions under failure (SpecOne) *)

\* C4: when the cache is marked unavailable or its client raises during a
\* call, getCache returns null, hasCache returns false, setCache and
\* deleteCache do nothing, and no error leaves them: no caller ends with an
\* error raised by the cache, no middleware answers 500, and the caller goes
\* on to the store and completes on what the store says.
C4_CacheFailureTransparent ==
  \A p \in Procs :
    LET r == req[p] IN
    /\ r.cause # "cache"
    /\ r.res # 500
    /\ "get" \in r.cfail =>
         /\ r.seen = "miss" /\ ~r.hit
         /\ r.pc = "done" => r.nDb >= 1
         /\ r.pc = "done" /\ r.status = "returned" => r.val.dates = "Date"
         /\ r.pc = "done" /\ r.kind \in AuthKinds =>
              IF r.isValid THEN r.nNext = 1 /\ r.res = 0
              ELSE r.nNext = 0 /\ r.res = 401
    /\ "has" \in r.cfail => r.seen = "false" /\ r.status = "returned"
    /\ r.pc = "done" /\ r.cfail # {} /\ r.kind \in ReadKinds \cup WriteKinds =>
         \/ r.status \in {"returned", "NotFoundError", "ValidationError"}
         \/ r.status = "Error" /\ r.cause \in {"store", "notImplemented"}

\* A read completed from the store while both its cache calls failed
C4_Witness ==
  \E p \in Procs :
    /\ DoneRead(p) /\ {"get", "set"} \subseteq req[p].cfail
    /\ ~kv[cacheKeyProduct(req[p].id)].present

----------------------------------------------------------------------------
(* Claims on the repository's not-found signalling (SpecUser) *)

\* C5: when no record matches the id, findById returns null, update returns
\* null and delete returns false (out = "null"); none of them throws for the
\* miss (an unreachable store aside).
C5_MissIsReportedNotThrown ==
  \A p \in Procs :
    LET c == req[p].repo IN
    c.op \in {"findById", "update", "delete"} /\ ~c.matched /\ c.out # "store" =>
      c.out = "null"

----------------------------------------------------------------------------
(* Claims on the authentication middleware (SpecAuth) *)

\* The request looks an API key up: validateApiKeyAuth, or validateAnyAuth
\* without an identity header
KeyLookup(p) ==
  /\ Present(req[p].hdrKey)
  /\ \/ req[p].kind = "validateApiKeyAuth"
     \/ req[p].kind = "validateAnyAuth" /\ ~Present(req[p].hdrId)

\* C6: a failure of the store inside an operation, the API-key lookup
\* included, reaches the caller as an error: it is never answered as a
\* verdict on the key (401) and never cached as one.
C6_StoreFailureIsNotAVerdict ==
  \A p \in Procs :
    req[p].kind \in AuthKinds /\ req[p].cause = "store" =>
      /\ req[p].res # 401
      /\ req[p].nSet = 0

\* C7 as stated (default time-to-live): once a lookup has found a key invalid
\* in the store, every further lookup of the key started before the marker's
\* time-to-live runs out is rejected with 401 without a query of the store.
C7_MarkedKeyNeverQueriedAgain ==
  keyCacheTTL = DefaultKeyCacheTTL =>
    \A p \in Procs :
      KeyLookup(p) /\ req[p].floor = 1 =>
        /\ req[p].nDb = 0
        /\ req[p].pc = "done" => req[p].res = 401

\* C7 amended: a lookup that finds the key invalid in the store calls
\* setCache with the marker { isValid: false } under api_key:<key> and the
\* configured time-to-live (3600 by default) and answers 401; a marker in the
\* cache carries that time-to-live; and every lookup whose getCache returns
\* the marker is rejected with 401 without a query of the store.  When the
\* cache is unavailable or its command fails, nothing is stored and the next
\* lookup queries the store again.
C7_MarkerRejectsWhenRead ==
  /\ \A p \in Procs :
       LET r == req[p] IN
       KeyLookup(p) =>
         /\ r.seen = "invalid" =>
              /\ r.pc = "done" /\ r.res = 401 /\ r.nNext = 0
              /\ r.nDb = 0 /\ r.nSet = 0
         /\ r.pc = "done" /\ r.nDb = 1 /\ ~r.isValid =>
              /\ r.res = 401 /\ r.nNext = 0
              /\ r.nSet = 1 /\ r.ttl = keyCacheTTL
              /\ keyCacheTTL = DefaultKeyCacheTTL => r.ttl = 3600
  /\ \A k \in Keys :
       LET e == kv[cacheKeyApiKey(k)] IN
       e.present /\ ~e.val.isValid =>
         e.ttl = (IF Truthy(keyCacheTTL) THEN keyCacheTTL ELSE 0)

\* A lookup of a key marked invalid read the marker and was rejected
C7_Witness ==
  /\ keyCacheTTL = DefaultKeyCacheTTL
  /\ \E p \in Procs :
       /\ KeyLookup(p) /\ req[p].floor = 1 /\ req[p].seen = "invalid"
       /\ req[p].pc = "done" /\ req[p].res = 401
       /\ kv[cacheKeyApiKey(req[p].hdrKey)].ttl = 3600

\* C8: an API-key lookup calls getCache before any query of the store and
\* queries the store only when getCache returned nothing; when getCache
\* returns an entry the decision is taken from the entry alone (a valid entry
\* admits with its identifier, a marker rejects); a key the store finds valid
\* is admitted and setCache is called with its validity and identifier
\* together.
C8_CacheBeforeStore ==
  /\ \A p \in Procs :
       LET r == req[p] IN
       KeyLookup(p) =>
         /\ r.nDb >= 1 => r.nGet = 1 /\ r.seen = "miss" /\ ~r.hit
         /\ r.nDb <= 1 /\ r.nGet <= 1
         /\ r.seen \in {"valid", "invalid"} =>
              /\ r.hit /\ r.pc = "done" /\ r.nDb = 0 /\ r.nSet = 0
              /\ r.seen = "valid" =>
                   /\ r.nNext = 1 /\ r.res = 0
                   /\ r.apiKeyId = StubApiKeyId /\ r.isApiKeyAuth = "true"
              /\ r.seen = "invalid" => r.nNext = 0 /\ r.res = 401
         /\ r.pc = "done" /\ r.nDb = 1 /\ r.isValid =>
              /\ r.nSet = 1 /\ r.nNext = 1 /\ r.res = 0
              /\ r.apiKeyId = StubApiKeyId /\ r.isApiKeyAuth = "true"
  /\ \A k \in Keys :
       LET e == kv[cacheKeyApiKey(k)] IN
       e.present /\ e.val.isValid => e.val.id = StubApiKeyId

\* A lookup was admitted from a cached entry that an earlier lookup stored
C8_Witness ==
  \E p \in Procs :
    /\ KeyLookup(p) /\ req[p].pc = "done" /\ req[p].seen = "valid"
    /\ req[p].nNext = 1 /\ req[p].nDb = 0
    /\ \E q \in Procs : q # p /\ KeyLookup(q) /\ req[q].nDb = 1 /\ req[q].nSet = 1

NoCacheOrStoreCall(r) == r.nGet + r.nSet + r.nDel + r.nHas + r.nDb = 0

\* C9: validateAnyAuth on a request with neither the identity header nor the
\* API-key header answers 401, never calls next(), and makes no cache call
\* and no query of the store.
C9_NeitherHeaderRejected ==
  \A p \in Procs :
    LET r == req[p] IN
    r.kind = "validateAnyAuth" /\ ~Present(r.hdrId) /\ ~Present(r.hdrKey) =>
      /\ NoCacheOrStoreCall(r) /\ r.nNext = 0
      /\ r.pc = "done" => r.res = 401
      /\ r.identityId = Absent /\ r.apiKeyId = Absent

\* validateAnyAuth answered a request without credentials, the identity
\* header given as the empty string
C9_Witness ==
  \E p \in Procs :
    /\ req[p].kind = "validateAnyAuth" /\ req[p].pc = "done"
    /\ req[p].hdrId = "" /\ req[p].hdrKey = Absent
    /\ req[p].res = 401

\* C10: on the identity-header path (validateSSOAuth, and validateAnyAuth
\* when the header is present) the header's value becomes identityId,
\* isApiKeyAuth is false, next() is called once, and no cache call or store
\* query is made, also when an API key comes with it; validateSSOAuth
\* without the header answers 401 and does not call next().
C10_IdentityHeaderAdmits ==
  \A p \in Procs :
    LET r == req[p] IN
    r.kind \in {"validateSSOAuth", "validateAnyAuth"} /\ r.pc = "done" =>
      /\ Present(r.hdrId) =>
           /\ r.identityId = r.hdrId /\ r.isApiKeyAuth = "false"
           /\ r.nNext = 1 /\ r.res = 0
           /\ r.apiKeyId = Absent
           /\ NoCacheOrStoreCall(r)
      /\ r.kind = "validateSSOAuth" /\ ~Present(r.hdrId) =>
           /\ r.res = 401 /\ r.nNext = 0 /\ r.identityId = Absent
           /\ NoCacheOrStoreCall(r)

\* validateAnyAuth admitted a request that carried both headers
C10_Witness ==
  \E p \in Procs :
    /\ req[p].kind = "validateAnyAuth" /\ req[p].pc = "done"
    /\ Present(req[p].hdrId) /\ Present(req[p].hdrKey)
    /\ req[p].nNext = 1 /\ req[p].identityId = req[p].hdrId

----------------------------------------------------------------------------
(* Claims on buildWhereClause (SpecWhere) *)

DoneWhere(p) == req[p].kind = "buildWhereClause" /\ req[p].pc = "done"

\* The fragment the filter's operator stands for, on the filter's field
OperatorSymbol ==
  [eq |-> "=", ne |-> "!=", gt |-> ">", gte |-> ">=", lt |-> "<", lte |-> "<=",
   like |-> "LIKE", in |-> "IN"]

Fragment(f) ==
  IF f.operator = "in" THEN <<f.field, "IN", "(", ":", f.field, ")">>
  ELSE <<f.field, OperatorSymbol[f.operator], ":", f.field>>

RECURSIVE Conjunction(_)
Conjunction(list) ==
  IF Len(list) = 1 THEN Fragment(list[1])
  ELSE Fragment(list[1]) \o <<"AND">> \o Conjunction(Tail(list))

Recognized(list) == SelectSeq(list, LAMBDA f : f.operator \in Operators)

\* C12: buildWhereClause maps each filter with an operator among eq, ne, gt,
\* gte, lt, lte, like, in to exactly one fragment (=, !=, >, >=, <, <=, LIKE,
\* IN on the filter's field), joins the fragments with AND in list order
\* after WHERE, and returns the empty string for an absent or empty list.
C12_FilterToClause ==
  \A p \in Procs :
    LET r == req[p] IN
    DoneWhere(p) =>
      /\ r.filters.absent => r.clause = <<>>
      /\ ~r.filters.absent /\ r.filters.list = <<>> => r.clause = <<>>
      /\ ~r.filters.absent /\ r.filters.list # <<>>
           /\ Recognized(r.filters.list) = r.filters.list =>
             r.clause = <<"WHERE">> \o Conjunction(r.filters.list)

\* A list of two filters with different operators was translated
C12_Witness ==
  \E p \in Procs :
    /\ DoneWhere(p) /\ ~req[p].filters.absent
    /\ Len(req[p].filters.list) = 2
    /\ req[p].filters.list[1].operator = "gte"
    /\ req[p].filters.list[2].operator = "in"
    /\ req[p].clause = <<"WHERE", "price", ">=", ":", "price", "AND",
                         "price", "IN", "(", ":", "price", ")">>

\* C13: buildWhereClause returns for every list the clause it returns for
\* the list without its filters of unrecognized operator; a list of
\* unrecognized filters only translates like the empty list.
C13_UnrecognizedDropped ==
  \A p \in Procs :
    LET r == req[p] IN
    DoneWhere(p) /\ ~r.filters.absent =>
      r.clause = buildWhereClause([absent |-> FALSE,
                                   list |-> Recognized(r.filters.list)])

----------------------------------------------------------------------------
(* Claims on UserService and its repository (SpecUser) *)

\* A getAllUsers call with page >= 1 and limit >= 1 that has computed its offset
PagedCall(p) ==
  /\ req[p].kind = "getAllUsers" /\ req[p].pc \in {"page", "done"}
  /\ req[p].page >= 1 /\ req[p].limit >= 1

\* n is the least integer with n * limit >= total
LeastCover(n, total, limit) ==
  /\ n >= 0 /\ n * limit >= total
  /\ n > 0 => (n - 1) * limit < total

----------------------------------------------------------------------------
(* Claims on invalidation, one request at a time (SpecOne) *)

\* C15: with one request at a time, once updateProduct has returned
\* successfully the cache holds no entry for the id, and a later read of the id
\* returns the updated value (after a miss, from the store).
C15_UpdateLeavesNoEntry ==
  \A p \in Procs :
    LET r == req[p] IN
    /\ r.kind = "updateProduct" /\ r.pc = "done" /\ r.status = "returned" =>
         ~kv[cacheKeyProduct(r.id)].present
    /\ DoneRead(p) => r.val.ver >= r.floor

\* C15 amended: with one request at a time, once updateProduct has returned
\* successfully and its deleteCache reached the cache, the cache holds no entry
\* for the id; a later read returns an older value than the update wrote only
\* from a hit on an entry that a skipped or failed deleteCache left in place.
C15_UpdateLeavesNoEntryIfDeleted ==
  \A p \in Procs :
    LET r == req[p] IN
    /\ r.kind = "updateProduct" /\ r.pc = "done" /\ r.status = "returned" =>
         /\ r.nDel = 1
         /\ "del" \notin r.cfail => ~kv[cacheKeyProduct(r.id)].present
    /\ DoneRead(p) /\ r.val.ver < r.floor => r.hit /\ r.taint = "kept"
    /\ DoneRead(p) /\ ~r.hit => r.val.ver >= r.floor

\* An update of a cached entity returned and left no entry behind
C15_Witness ==
  \E p \in Procs :
    /\ req[p].kind = "updateProduct" /\ req[p].pc = "done"
    /\ req[p].status = "returned" /\ req[p].seen = "product"
    /\ req[p].cfail = {} /\ req[p].wver >= 1
    /\ ~kv[cacheKeyProduct(req[p].id)].present

\* C16: a createUser whose email lookup found no user, with the store
\* reachable, returns the entity with a freshly assigned id and its creation
\* timestamp, as findById reads it from the store, and makes no cache call.
C16_CreateReturnsStoredEntity ==
  \A p \in Procs :
    LET r == req[p] IN
    r.kind = "createUser" /\ r.pc = "done" /\ r.cause # "store"
      /\ r.calls # <<>> /\ r.calls[1].out = "null" =>
        /\ r.status = "returned"
        /\ r.val.id \in UserIds /\ r.val.dates = "Date" /\ r.val.email = r.email
        /\ r.nGet + r.nSet + r.nDel + r.nHas = 0

\* C17: getUserById(id) fails with NotFoundError 'User with ID <id> not found'
\* exactly when the repository's findById returned null (without throwing), and
\* returns exactly when findById returned a user, the result carrying that
\* user's id, email, names, isActive and timestamps unchanged.
C17_GetUserById ==
  [][\A p \in Procs :
       req[p].kind = "getUserById" /\ req[p].pc = "find" /\ req'[p].pc = "done" =>
         LET f == findById(users, req[p].id)
             r == req'[p]
         IN
         /\ r.calls = <<[op |-> "findById", out |-> Outcome(f)]>>
         /\ r.status = "NotFoundError" <=> Outcome(f) = "null"
         /\ r.status = "returned" <=> Outcome(f) = "entity"
         /\ r.status = "NotFoundError" =>
              r.msg = [text |-> "User with ID <id> not found", id |-> req[p].id]
         /\ r.status = "returned" =>
              /\ DOMAIN r.val \ {"isNull"} = {"id", "email", "ver", "isActive", "dates"}
              /\ \A k \in DOMAIN r.val : r.val[k] = f.val[k]
              /\ r.val.id = req[p].id]_vars

\* One getUserById failed on a missing id, another returned the user of its id
C17_Witness ==
  \E p, q \in Procs :
    /\ req[p].kind = "getUserById" /\ req[p].status = "NotFoundError"
    /\ req[p].msg.id = req[p].id /\ req[p].repo.out = "null"
    /\ req[q].kind = "getUserById" /\ req[q].status = "returned"
    /\ req[q].val.id = req[q].id /\ req[q].val.email \in Emails

C19_UpdateUserGuards ==
  /\ [](\A p \in Procs :
         LET r == req[p]
             n == Len(r.calls)
         IN
         r.kind = "updateUser" =>
           /\ \A i \in 1..n :
                r.calls[i].op = "update" =>
                  /\ i = n /\ i \in {2, 3}
                  /\ r.calls[1] = [op |-> "findById", out |-> "entity"]
                  /\ i = 3 => r.calls[2] = [op |-> "findByEmail", out |-> "null"]
           /\ n >= 1 /\ r.calls[1].out = "null" =>
                /\ n = 1 /\ r.status = "NotFoundError"
                /\ r.msg = [text |-> "User with ID <id> not found", id |-> r.id]
           /\ n >= 2 /\ r.calls[2] = [op |-> "findByEmail", out |-> "entity"] =>
                /\ n = 2 /\ r.status = "ValidationError"
                /\ r.msg.text = "Email already exists"
           /\ n >= 2 /\ r.calls[n] = [op |-> "update", out |-> "null"] =>
                /\ r.status = "NotFoundError"
                /\ r.msg = [text |-> "User with ID <id> not found", id |-> r.id]
           /\ r.status = "returned" => r.calls[n] = [op |-> "update", out |-> "entity"])
  /\ [][\A p \in Procs :
          req[p].kind = "updateUser" /\ req[p].pc = "find"
            /\ req'[p].pc \in {"email", "upd"} =>
              LET f == findById(users, req[p].id) IN
              req'[p].pc = "email" <=>
                req[p].email # Absent /\ req[p].email # f.val.email]_vars

\* An updateUser to a new email went through both lookups and the update
C19_Witness ==
  \E p \in Procs :
    /\ req[p].kind = "updateUser" /\ req[p].status = "returned"
    /\ req[p].calls = <<[op |-> "findById", out |-> "entity"],
                        [op |-> "findByEmail", out |-> "null"],
                        [op |-> "update", out |-> "entity"]>>
    /\ req[p].val.email = req[p].email

\* C20: deleteUser(id) calls the repository's delete exactly once, with the
\* given id; it resolves, with no value, exactly when delete returned true and
\* fails with NotFoundError 'User with ID <id> not found' when delete returned
\* false.
C20_DeleteUser ==
  /\ [](\A p \in Procs :
         LET r == req[p] IN
         r.kind = "deleteUser" =>
           /\ r.pc = "delete" <=> r.calls = <<>>
           /\ r.pc = "done" =>
                /\ Len(r.calls) = 1 /\ r.calls[1].op = "delete" /\ r.nDb = 1
                /\ r.status = "returned" <=> r.calls[1].out = "entity"
                /\ r.calls[1].out = "null" =>
                     /\ r.status = "NotFoundError"
                     /\ r.msg = [text |-> "User with ID <id> not found", id |-> r.id]
                /\ r.val = Idle.val)
  /\ [][\A p \in Procs :
          req[p].kind = "deleteUser" /\ req[p].pc = "delete" /\ req'[p].pc = "done" =>
            /\ req'[p].id = req[p].id
            /\ \A i \in UserIds : i # req[p].id => users'[i] = users[i]
            /\ req'[p].status = "returned" =>
                 users[req[p].id].exists /\ ~users'[req[p].id].exists]_vars

\* One deleteUser resolved, another of the same id then failed with NotFoundError
C20_Witness ==
  \E p, q \in Procs :
    /\ req[p].kind = "deleteUser" /\ req[p].status = "returned"
    /\ req[p].calls = <<[op |-> "delete", out |-> "entity"]>>
    /\ req[q].kind = "deleteUser" /\ req[q].status = "NotFoundError"
    /\ req[q].id = req[p].id /\ req[q].msg.id = req[q].id

----------------------------------------------------------------------------
(* Claims on the user routes: controller and errorHandler (SpecHttp) *)

\* C21: errorHandler answers a NotFoundError with 404 and a ValidationError
\* with 400, each with the error's own message, and every other error of the
\* service (a failure of the store among them) with 500 'Internal server
\* error': a not-found condition or a validation conflict is answered 4xx, a
\* store failure 5xx.
C21_ErrorClassification ==
  \A p \in Procs :
    LET r == req[p] IN
    r.kind \in UserKinds /\ r.res # 0 =>
      /\ r.pc = "done" /\ r.status # "returned"
      /\ r.status = "NotFoundError" => r.res = 404 /\ r.resMsg = r.msg.text
      /\ r.status = "ValidationError" => r.res = 400 /\ r.resMsg = r.msg.text
      /\ r.status = "Error" => r.res = 500 /\ r.resMsg = "Internal server error"
      /\ r.cause = "store" => r.res >= 500
      /\ r.calls # <<>> /\ r.calls[Len(r.calls)].out = "null" => r.res = 404
      /\ r.calls # <<>> /\ r.calls[Len(r.calls)] = [op |-> "findByEmail", out |-> "entity"]
           => r.res = 400

\* A store failure was answered 500 and a missing user 404
C21_Witness ==
  \E p, q \in Procs :
    /\ req[p].cause = "store" /\ req[p].res = 500
    /\ req[q].status = "NotFoundError" /\ req[q].res = 404
    /\ req[q].resMsg = "User with ID <id> not found"

\* C22: UserController.getUserById, updateUser and deleteUser turn every id
\* that is not a positive integer down with ValidationError 'Invalid user ID'
\* before the service is called, so that no service or repository operation
\* runs with such an id; updateUser turns an empty body down the same way.
C22_IdValidatedBeforeService ==
  \A p \in Procs :
    LET r == req[p]
        positiveInteger == r.raw.num /\ r.raw.int /\ r.raw.n >= 1
    IN
    r.kind \in UserKinds /\ r.status # "SyntaxError" =>
      /\ ~positiveInteger =>
           /\ r.pc = "done" /\ r.status = "ValidationError"
           /\ r.msg.text = "Invalid user ID"
           /\ r.calls = <<>> /\ r.nDb = 0
      /\ r.pc # "done" \/ r.calls # <<>> => positiveInteger /\ r.id = r.raw.n
      /\ r.kind = "updateUser" /\ r.email = "empty" =>
           /\ r.pc = "done" /\ r.status = "ValidationError"
           /\ r.calls = <<>> /\ r.nDb = 0

\* A fractional id was turned down and answered 400, an id of 2 went through
C22_Witness ==
  \E p, q \in Procs :
    /\ req[p].kind = "updateUser" /\ ~req[p].raw.int /\ req[p].raw.num
    /\ req[p].status = "ValidationError" /\ req[p].res = 400
    /\ req[q].kind = "deleteUser" /\ req[q].raw.n = 2 /\ req[q].calls # <<>>

----------------------------------------------------------------------------
(* Claims on UserRepository.mapModelToRow (SpecMap) *)

\* C23: the row mapModelToRow produces holds a column for each of email,
\* firstName, lastName and isActive that the partial user sets, with the value
\* it sets, and no other column: never the id, createdAt or updatedAt, also when
\* the caller supplies them.
C23_RowOfSetFieldsOnly ==
  \A p \in Procs :
    LET r == req[p] IN
    r.kind = "mapModelToRow" =>
      /\ DOMAIN r.row = DOMAIN r.model \cap {"email", "firstName", "lastName", "isActive"}
      /\ DOMAIN r.row \cap {"id", "createdAt", "updatedAt"} = {}
      /\ \A k \in DOMAIN r.row : r.row[k] = r.model[k]

\* A partial user that supplies id, timestamps and an email gave a row of the
\* email alone
C23_Witness ==
  \E p \in Procs :
    /\ req[p].kind = "mapModelToRow"
    /\ DOMAIN req[p].model = {"id", "email", "createdAt", "updatedAt"}
    /\ DOMAIN req[p].row = {"email"}

----------------------------------------------------------------------------
(* Claims on the time-to-live of cache entries (SpecAuth) *)

\* C24: every entry setCache writes for a call that passes a ttl is written
\* with an expiry of ttl seconds: every api_key entry in the cache expires
\* after config.api.keyCacheTTL seconds, whatever that setting is (0 and an
\* unparsable one included).
C24_EveryEntryExpires ==
  \A k \in CacheKeys :
    kv[k].present =>
      /\ kv[k].ttl > 0
      /\ k[1] = "api_key" => kv[k].ttl = keyCacheTTL

----------------------------------------------------------------------------
(* Claims on the life of the process (SpecServer, SpecServerFair) *)

\* C25: after SIGTERM or SIGINT the process eventually exits; it exits with
\* code 0 only after the HTTP server, then the database pool, then (Redis
\* enabled) the Redis client have been closed, in that order; when closing the
\* database or Redis fails, or the sequence is not through 10 seconds after the
\* signal, it exits with code 1.
C25_GracefulShutdown ==
  /\ [](proc.phase = "exited" =>
          /\ proc.code = 0 =>
               proc.closed = IF redisEnabled THEN <<"http", "db", "redis">>
                             ELSE <<"http", "db">>
          /\ proc.code = 1 =>
               \/ proc.clock = ShutdownTimeout
               \/ proc.closed \in {<<"http">>, <<"http", "db">>}
          /\ proc.code \in {0, 1})
  /\ [][proc.phase \in {"closeDatabase", "closeRedis"}
          /\ proc'.phase # proc.phase /\ Len(proc'.closed) = Len(proc.closed)
          => proc'.phase = "exited" /\ proc'.code = 1]_vars
  /\ (proc.phase # "serving" ~> proc.phase = "exited")

\* The process exited with code 0 after closing server, pool and Redis client
C25_Witness ==
  /\ proc.phase = "exited" /\ proc.code = 0
  /\ proc.closed = <<"http", "db", "redis">> /\ proc.clock < ShutdownTimeout

\* C26: getDetailedHealth and getReadinessHealth report status 'UP' if and only
\* if the database check reported connected and, with Redis enabled, the Redis
\* check reported connected too; with Redis disabled the Redis check has no
\* part in the status; a check that throws gives 'DOWN' with both components
\* 'UNKNOWN'; and the call returns, it never throws.
C26_HealthStatus ==
  /\ \A p \in Procs :
       LET r == req[p] IN
       r.kind \in {"getDetailedHealth", "getReadinessHealth"} /\ r.pc = "done" =>
         /\ r.status = "returned"
         /\ r.report.status \in {"UP", "DOWN"}
         /\ r.report.status = "UP" <=>
              r.dbHealth = "true" /\ (redisEnabled => r.redisHealth = "true")
         /\ r.report.database = (IF r.dbHealth = "true" THEN "UP" ELSE "DOWN")
         /\ r.report.redis = (IF r.redisHealth = "true" THEN "UP" ELSE "DOWN")
  /\ \A d, h \in {"true", "false", "threw"} :
       "threw" \in {d, h} =>
         getDetailedHealth(d, h) =
           [status |-> "DOWN", database |-> "UNKNOWN", redis |-> "UNKNOWN"]

\* A report 'UP' with Redis disabled, whose Redis check said not connected
C26_Witness ==
  \E p \in Procs :
    /\ req[p].kind = "getDetailedHealth" /\ req[p].pc = "done"
    /\ ~redisEnabled /\ req[p].redisHealth = "false"
    /\ req[p].report = [status |-> "UP", database |-> "UP", redis |-> "DOWN"]

----------------------------------------------------------------------------
(* Further claims on the authentication middleware (SpecAuth) *)

\* C27: every request through validateSSOAuth, validateApiKeyAuth or
\* validateAnyAuth ends with exactly one outcome: next() called once and no
\* response sent, or one error response (401 or 500) and no call of next();
\* never both, never neither, and nothing more after the outcome.  When
\* validateApiKeyAuth calls next(), apiKeyId and isApiKeyAuth = true are set.
C27_ExactlyOneOutcome ==
  /\ [](\A p \in Procs :
          LET r == req[p] IN
          r.kind \in {"validateSSOAuth", "validateApiKeyAuth", "validateAnyAuth"} =>
            /\ r.pc # "done" => r.nNext = 0 /\ r.res = 0
            /\ r.pc = "done" =>
                 \/ r.nNext = 1 /\ r.res = 0
                 \/ r.nNext = 0 /\ r.res \in {401, 500}
            /\ r.kind = "validateApiKeyAuth" /\ r.nNext = 1 =>
                 r.apiKeyId # Absent /\ r.isApiKeyAuth = "true")
  /\ [][\A p \in Procs :
          /\ req[p].kind \in {"validateSSOAuth", "validateApiKeyAuth", "validateAnyAuth"}
          /\ req[p].pc = "done" /\ req'[p].pc = "done"
          => req'[p] = req[p]]_vars

\* validateApiKeyAuth admitted one request after the store lookup and rejected
\* another
C27_Witness ==
  /\ req["p1"].kind = "validateApiKeyAuth" /\ req["p1"].pc = "done"
  /\ req["p1"].nNext = 1 /\ req["p1"].nDb = 1 /\ req["p1"].apiKeyId # Absent
  /\ req["p2"].kind = "validateApiKeyAuth" /\ req["p2"].pc = "done"
  /\ req["p2"].res = 401 /\ req["p2"].nNext = 0

----------------------------------------------------------------------------
(* Further claims on UserService (SpecUser) *)

\* C28: after any interleaving of concurrent createUser and updateUser calls,
\* each suspending at its store calls, no two stored users have the same email.
C28_EmailsUnique ==
  \A i, j \in UserIds :
    i # j /\ users[i].exists /\ users[j].exists => users[i].email # users[j].email

\* C29: the retry strategy of the Redis client returns min(times*50, 2000) ms
\* for attempts 1 to 3 and stops (null) for every attempt beyond the third,
\* setting redisAvailable to false; redisAvailable becomes true again only on
\* a 'connect' or 'ready' event; while redisAvailable is false no cache
\* operation (get, set, delete, has) touches the client; and the warning is
\* logged at most once between two successful connects.
C29_RetryAndAvailability ==
  /\ [](/\ \A times \in 1..MaxTimes :
             LET s == retryStrategy(times) IN
             IF times <= 3
             THEN /\ ~s.stop /\ s.avail = redisAvailable
                  /\ s.delay = (IF times * 50 < 2000 THEN times * 50 ELSE 2000)
             ELSE s.stop /\ ~s.avail
        /\ retry.stop <=> retry.times > 3
        /\ retry.stop => ~redisAvailable
        /\ retry.times \in 1..3 => retry.delay = retry.times * 50
        /\ retry.warned <= 1
        /\ ~redisAvailable =>
             \A key \in CacheKeys :
               /\ getCache(key) = Skipped /\ hasCache(key) = Skipped
               /\ deleteCache(key) = Skipped
               /\ setCache(key, NullVal, ProductCacheTTL) = Skipped)
  /\ [][/\ ~redisAvailable /\ redisAvailable' => RedisConnected
        /\ retry'.warned > retry.warned => ~errorLogged /\ errorLogged'
        /\ \A p \in Procs :
             ~redisAvailable /\ req'[p].nHas = req[p].nHas + 1 =>
               /\ redisClient' = redisClient /\ kv' = kv
               /\ req'[p].seen = "false"]_vars

\* The fourth attempt stopped the retries with one warning, and a later
\* hasCache went by the client
C29_Witness ==
  /\ retry.stop /\ retry.times = 4 /\ retry.warned = 1 /\ ~redisAvailable
  /\ \E p \in Procs : req[p].kind = "hasCache" /\ req[p].pc = "done"
                      /\ "has" \in req[p].cfail

\* C30: once closeRedis has completed (redisClient reset to null), no later
\* getCache, setCache, deleteCache, hasCache or checkRedisHealth call, also of
\* a request still in flight, creates a new Redis client.
C30_NoClientAfterClose ==
  "redis" \in {proc.closed[i] : i \in 1..Len(proc.closed)} => redisClient = Null

====
